---- MODULE Spec2Model ----
(***************************************************************************)
(* Model of scripts/acme.py: the ACME v2 (HTTP-01) client AcmeClient and   *)
(* the issuance flow of main().  One action per network exchange of main() *)
(* together with the local code that follows it up to the next exchange.   *)
(* The CA and the network are the environment: every response is drawn     *)
(* from a small set.  Spec is one run of main(); ClientSpec is one client  *)
(* whose methods another caller invokes in any order; RunsSpec is a        *)
(* sequence of runs of main() on one output directory; CodecSpec is one    *)
(* call of json_b64url, of AcmeClient.post or of jwk_thumbprint with       *)
(* strings, JSON and base64url modelled character by character, or the     *)
(* publication of a token; FreshSpec is one run of main() against a CA     *)
(* that answers every signed request it accepts with a nonce it never      *)
(* issued before; ConcSpec is two runs of main() on one output directory,  *)
(* side by side or one after the other, up to the end of ensure_account;   *)
(* FairSpec is a run of main() in which every step that can be taken is    *)
(* eventually taken.                                                       *)
(***************************************************************************)
EXTENDS Integers, Sequences, FiniteSets, TLC

\* ------------------------------------------------------------------ values

\* Python's None, and the empty string (both falsy).
None == "None"
Empty == ""

\* Python truthiness of an optional string: `if not x` is ~Truthy(x).
Truthy(x) == x # None /\ x # Empty

\* Replay-nonce values a CA may put on a response.
Nonces == {"n1", "n2"}
\* headers.get("replay-nonce"): absent, present but empty, or a value.
NonceHdr == {None, Empty} \cup Nonces

\* args.poll_timeout ranges over 0..MaxPollTimeout clock ticks.
MaxPollTimeout == 2
\* One polling iteration (request + time.sleep) advances the clock by 1..MaxTick.
MaxTick == 2
\* A caller makes at most MaxCalls method calls on one client.
MaxCalls == 3
\* The str values inside the payloads given to the encoders have at most
\* MaxStr characters.
MaxStr == 1
\* At most MaxRuns runs of main() follow one another on one output directory.
MaxRuns == 2
\* args.poll_timeout of the runs that follow one another.
RunsPollTimeout == 1

\* The URLs of the directory (AcmeDirectory); NoDir is self._dir = None.
NoDir == [newNonce |-> None, newAccount |-> None, newOrder |-> None]
AcmeDirectory == [newNonce |-> "newNonce", newAccount |-> "newAccount", newOrder |-> "newOrder"]

\* Challenge objects of an authorization.
Http1 == [type |-> "http-01", token |-> "t1", url |-> "cu1"]
Http2 == [type |-> "http-01", token |-> "t2", url |-> "cu2"]
Dns1 == [type |-> "dns-01", token |-> "t3", url |-> "cu3"]
Tokens == {"t1", "t2", "t3"}
NoChall == [type |-> None, token |-> None, url |-> None]
ChallengeLists == {<<>>, <<Dns1>>, <<Http1>>, <<Dns1, Http2>>, <<Http1, Http2>>}

\* JSON bodies.  `complete` says whether the keys the code indexes with [] exist.
NoBody ==
    [complete |-> FALSE, status |-> None, detail |-> None, challenges |-> <<>>,
     certificate |-> None, pem |-> None, dir |-> NoDir]

Body(complete, status, detail, challenges, certificate, pem) ==
    [complete |-> complete, status |-> status, detail |-> detail,
     challenges |-> challenges, certificate |-> certificate, pem |-> pem,
     dir |-> NoDir]

\* The directory object a CA serves: the three URLs the client reads from it.
DirectoryBody == [Body(TRUE, None, None, <<>>, None, None) EXCEPT !.dir = AcmeDirectory]

NoOrder == [url |-> None, finalize |-> None, authz_url |-> None]

\* File contents.  A text file is a sequence of pieces; NoFile is a missing file.
NoFile == [exists |-> FALSE, text |-> <<>>]
File(text) == [exists |-> TRUE, text |-> text]

\* A connection error or timeout inside urlopen: no response at all.
Transport == [net |-> "transport", code |-> 0, rn |-> None, loc |-> None, body |-> NoBody]
NoResp == [net |-> "none", code |-> 0, rn |-> None, loc |-> None, body |-> NoBody]

\* A 200 response whose body json.loads cannot turn into a JSON object.
BadBody == [NoBody EXCEPT !.status = "unparseable"]
Garbled == [net |-> "ok", code |-> 200, rn |-> None, loc |-> None, body |-> BadBody]

Responses(codes, rns, locs, bodies) ==
    {[net |-> "ok", code |-> c, rn |-> n, loc |-> l, body |-> b] :
        c \in codes, n \in rns, l \in locs, b \in bodies} \cup {Transport}

\* The jwk member of a protected header; NoJwk: the header has none.
NoJwk == [t |-> None, s |-> <<>>, o |-> <<>>]

NoReq ==
    [kind |-> None, method |-> None, url |-> None, nonce |-> None, idby |-> None,
     kid |-> None, jwk |-> NoJwk, payload |-> <<>>]
NoErr == [type |-> None, msg |-> None, detail |-> None]
Err(type, msg, detail) == [type |-> type, msg |-> msg, detail |-> detail]

\* The kinds of request main() sends.
SignedKinds == {"newAccount", "newOrder", "challenge", "finalize", "orderPoll"}
UnsignedKinds == {"directory", "newNonce", "authz", "authzPoll", "certificate"}
Kinds == SignedKinds \cup UnsignedKinds

\* What is known of the directory() calls made on the client so far.
NoDirs == [returned |-> FALSE, raised |-> FALSE, heads |-> 0, ret |-> NoDir, served |-> NoDir]

\* args.domain: an ordinary name, and the name whose key file is account.key.pem.
Domains == {"example.org", "account"}

\* An error response whose body is a problem document (type and detail).
ProblemBody == [NoBody EXCEPT !.detail = "d3"]
Problem(code) ==
    [net |-> "ok", code |-> code, rn |-> None, loc |-> None, body |-> ProblemBody]

\* No function of the module is under test on its own.
NoCodec ==
    [fn |-> None, step |-> 0, payload |-> NoJwk, jwks |-> <<>>, nonce |-> <<>>,
     kid |-> <<>>, url |-> <<>>, use_kid |-> FALSE, b64 |-> <<>>, thumbs |-> <<>>,
     request |-> [url |-> <<>>, data |-> <<>>], ch |-> NoChall, chal_dirs |-> <<>>]

\* The content of the account key openssl genpkey writes in the r-th run.
GeneratedKeys == <<"ak1", "ak2", "ak3", "ak4">>

\* The nonces a CA that never repeats one issues, in the order it issues them.
FreshNonces == <<"f1", "f2", "f3", "f4", "f5", "f6", "f7", "f8", "f9">>

\* No processes side by side.
NoConc == [serial |-> FALSE, procs |-> <<>>, writes |-> <<>>]

VARIABLES
    pc,            \* position of main()
    dir,           \* self._dir (None until directory() has stored it)
    nonce,         \* self._nonce
    kid_file,      \* the file account.kid
    poll_timeout,  \* args.poll_timeout
    elapsed,       \* time.time() - start of the current polling loop
    order,         \* order_url, finalize, authz_url of the attempt
    authz,         \* status of the first authorization fetch
    chall,         \* the selected challenge
    chal_dir,      \* challenge_dir: the files in it
    domain_key,    \* out_dir/<domain>.key.pem, where that is a file of its own
    cert_url,      \* cert_url of main()
    fullchain,     \* out_dir/fullchain.pem
    privkey,       \* out_dir/privkey.pem
    err,           \* the exception that ended the attempt
    req,           \* history: the last request sent
    resp,          \* history: the last response received
    spent,         \* history: nonces used by a signed request, not re-supplied since
    nsent,         \* history: requests sent, per kind
    unanswered,    \* history: the last signed response had no replay-nonce header
                   \*          and no nonce has been fetched since
    authz_polled,  \* history: how the authorization polling loop was left
    order_polled,  \* history: how the order polling loop was left
    run,           \* the number of the current run of main() on this output directory
    account_key,   \* out_dir/account.key.pem
    call,          \* the caller of the client: "main", or the method a caller invoked
    ncalls,        \* method calls a caller other than main() has made on the client
    dirs,          \* history: the directory() calls made on the client
    csr_key,       \* history: the key build_csr_der read for the CSR
    domain,        \* args.domain
    codec,         \* a function of the module under test: its arguments and results
    ca,            \* the CA's nonce policy: "any" header or none, or always "fresh"
    conc           \* two processes on one output directory: their positions and locals

vars ==
    <<pc, dir, nonce, kid_file, poll_timeout, elapsed, order, authz, chall,
      chal_dir, domain_key, cert_url, fullchain, privkey, err, req, resp, spent,
      nsent, unanswered, authz_polled, order_polled, run, account_key, call,
      ncalls, dirs, csr_key, domain, codec, ca, conc>>

main_vars ==
    <<pc, dir, nonce, kid_file, poll_timeout, elapsed, order, authz, chall,
      chal_dir, domain_key, cert_url, fullchain, privkey, err, req, resp, spent,
      nsent, unanswered, authz_polled, order_polled, run, account_key, call,
      ncalls, dirs, csr_key, domain, ca, conc>>

flow_vars == <<order, authz, chall, cert_url>>
file_vars == <<chal_dir, domain_key, fullchain, privkey>>
poll_vars == <<authz_polled, order_polled>>
ctx_vars == <<run, account_key, call, ncalls, domain, codec, ca, conc>>

\* ------------------------------------------------------------- the client

\* ------------------------------------------- strings, JSON and base64url

\* The printable ASCII characters in code order; the first has code 32.
\* (Code 96 is spelled out: a TLA+ string cannot hold that character.)
Ascii ==
    <<" ", "!", "\"", "#", "$", "%", "&", "'", "(", ")", "*", "+", ",", "-", ".", "/",
      "0", "1", "2", "3", "4", "5", "6", "7", "8", "9", ":", ";", "<", "=", ">", "?",
      "@", "A", "B", "C", "D", "E", "F", "G", "H", "I", "J", "K", "L", "M", "N", "O",
      "P", "Q", "R", "S", "T", "U", "V", "W", "X", "Y", "Z", "[", "\\", "]", "^", "_",
      "grave", "a", "b", "c", "d", "e", "f", "g", "h", "i", "j", "k", "l", "m", "n", "o",
      "p", "q", "r", "s", "t", "u", "v", "w", "x", "y", "z", "{", "|", "}", "~">>

\* ord(c) and chr(n) on that range.  A str is a sequence of characters.
ord_table ==
    [c \in {Ascii[i] : i \in 1..Len(Ascii)} |-> 31 + CHOOSE i \in 1..Len(Ascii) : Ascii[i] = c]

ord(c) == ord_table[c]

chr(n) == Ascii[n - 31]

\* str.encode("ascii") and str.encode("utf-8") of a str of ASCII characters:
\* bytes are a sequence of numbers.
encode(text) == [i \in 1..Len(text) |-> ord(text[i])]

\* str comparison as sorted() applies it to dictionary keys: by code point,
\* the shorter of two strings first when it is a prefix of the other.
RECURSIVE str_less(_, _)
str_less(a, b) ==
    IF b = <<>> THEN FALSE
    ELSE IF a = <<>> THEN TRUE
    ELSE IF a[1] # b[1] THEN ord(a[1]) < ord(b[1])
    ELSE str_less(Tail(a), Tail(b))

\* Python values that json.dumps is given: a str, or a dict whose items are
\* kept in insertion order as <<key, value>> pairs with keys that are str.
Str(s) == [t |-> "str", s |-> s, o |-> <<>>]

Dict(o) == [t |-> "dict", s |-> <<>>, o |-> o]

\* sorted(dict.items()): the item with the least key first.
RECURSIVE sorted_items(_)
sorted_items(o) ==
    IF o = <<>> THEN <<>>
    ELSE LET i == CHOOSE i \in 1..Len(o) :
                     \A j \in 1..Len(o) : j = i \/ str_less(o[i][1], o[j][1])
         IN  <<o[i]>> \o sorted_items(SubSeq(o, 1, i - 1) \o SubSeq(o, i + 1, Len(o)))

\* The JSON text of a str: quoted, with the quote and the backslash escaped,
\* each character on its own (the str is halved until one character is left).
RECURSIVE json_escape(_)
json_escape(s) ==
    IF Len(s) = 0 THEN <<>>
    ELSE IF Len(s) = 1 THEN (IF s[1] \in {"\"", "\\"} THEN <<"\\", s[1]>> ELSE <<s[1]>>)
    ELSE json_escape(SubSeq(s, 1, Len(s) \div 2))
         \o json_escape(SubSeq(s, (Len(s) \div 2) + 1, Len(s)))

json_string(s) == <<"\"">> \o json_escape(s) \o <<"\"">>

\* json.dumps(obj, sort_keys=sort_keys, separators=(item_sep, key_sep)).
RECURSIVE json_dumps(_, _, _, _), json_items(_, _, _, _)
json_dumps(obj, sort_keys, item_sep, key_sep) ==
    IF obj.t = "str" THEN json_string(obj.s)
    ELSE <<"{">>
         \o json_items(IF sort_keys THEN sorted_items(obj.o) ELSE obj.o,
                       sort_keys, item_sep, key_sep)
         \o <<"}">>

json_items(o, sort_keys, item_sep, key_sep) ==
    IF o = <<>> THEN <<>>
    ELSE json_string(o[1][1]) \o key_sep \o json_dumps(o[1][2], sort_keys, item_sep, key_sep)
         \o (IF Len(o) = 1 THEN <<>> ELSE item_sep)
         \o json_items(Tail(o), sort_keys, item_sep, key_sep)

\* The alphabet of base64.urlsafe_b64encode; "=" pads the last group.
B64 ==
    <<"A", "B", "C", "D", "E", "F", "G", "H", "I", "J", "K", "L", "M", "N", "O", "P",
      "Q", "R", "S", "T", "U", "V", "W", "X", "Y", "Z", "a", "b", "c", "d", "e", "f",
      "g", "h", "i", "j", "k", "l", "m", "n", "o", "p", "q", "r", "s", "t", "u", "v",
      "w", "x", "y", "z", "0", "1", "2", "3", "4", "5", "6", "7", "8", "9", "-", "_">>

\* One group of up to three bytes as four characters.
b64_group(g) ==
    LET b1 == g[1]
        b2 == IF Len(g) >= 2 THEN g[2] ELSE 0
        b3 == IF Len(g) = 3 THEN g[3] ELSE 0
    IN  <<B64[(b1 \div 4) + 1],
          B64[(b1 % 4) * 16 + (b2 \div 16) + 1],
          IF Len(g) >= 2 THEN B64[(b2 % 16) * 4 + (b3 \div 64) + 1] ELSE "=",
          IF Len(g) = 3 THEN B64[(b3 % 64) + 1] ELSE "=">>

\* base64.urlsafe_b64encode: the k-th character comes from the group of
\* three bytes it lies in.
urlsafe_b64encode(data) ==
    [k \in 1..(4 * ((Len(data) + 2) \div 3)) |->
        LET g == (k - 1) \div 4
            last == IF 3 * g + 3 <= Len(data) THEN 3 * g + 3 ELSE Len(data)
        IN  b64_group(SubSeq(data, 3 * g + 1, last))[((k - 1) % 4) + 1]]

\* bytes.rstrip(c).
RECURSIVE rstrip(_, _)
rstrip(s, c) ==
    IF s # <<>> /\ s[Len(s)] = c THEN rstrip(SubSeq(s, 1, Len(s) - 1), c) ELSE s

\* Mutant: the padding is kept.
b64url_padded(data) == urlsafe_b64encode(data)

\* b64url, lines 46-47.
b64url(data) == rstrip(urlsafe_b64encode(data), "=")

\* json_b64url, lines 50-51.
json_b64url(obj) == b64url(encode(json_dumps(obj, TRUE, <<",">>, <<":">>)))

\* hashlib.sha256(data).digest(), taken as free of collisions: the digest is
\* a byte 0 followed by the bytes it stands for.
sha256(data) == <<0>> \o data

\* The key files' contents, and the byte that stands for each in a signature.
Keys == <<"ak0", "ak1", "ak2", "ak3", "ak4", "dk_old", "dk_new">>

\* sign_rs256: the RS256 signature of data under the key, taken as
\* unforgeable: it stands for the key and the digest of what was signed.
sign_rs256(key, data) == <<CHOOSE i \in 1..Len(Keys) : Keys[i] = key>> \o sha256(data)

\* rsa_jwk_from_key: the public JWK of the account key, its members in the
\* order of line 100; n and e are b64url of the modulus and of the exponent
\* (65537, the bytes 1 0 1).
rsa_jwk_from_key ==
    Dict(<<<<<<"k", "t", "y">>, Str(<<"R", "S", "A">>)>>,
           <<<<"n">>, Str(b64url(<<187, 34, 17>>))>>,
           <<<<"e">>, Str(b64url(<<1, 0, 1>>))>>>>)

\* The public JWK of another RSA key.
other_jwk == [rsa_jwk_from_key EXCEPT !.o[2] = <<<<"n">>, Str(b64url(<<1, 2, 3>>))>>]

\* Mutant: the members are serialised in insertion order.
jwk_thumbprint_insertion_order(jwk) ==
    b64url(sha256(encode(json_dumps(jwk, FALSE, <<",">>, <<":">>))))

\* jwk_thumbprint: b64url of SHA-256 over the JSON with sorted keys.
jwk_thumbprint(jwk) == b64url(sha256(encode(json_dumps(jwk, TRUE, <<",">>, <<":">>))))

\* AcmeClient.__init__: self._thumb.
thumb == jwk_thumbprint(rsa_jwk_from_key)

\* Mutant: the thumbprint is left out of the key authorization.
http01_key_authorization_no_thumb(token) == <<token>>

\* AcmeClient.http01_key_authorization: token + "." + self._thumb.
http01_key_authorization(token) == <<token, ".", thumb>>

\* AcmeClient._http: urlopen raises URLError when the transport fails and
\* HTTPError for every status outside 2xx; only a 2xx response is returned.
\* Mutant: a call that got no response returns as if it had one.
http_raises_answered_only(r) == r.net # "transport" /\ ~(200 <= r.code /\ r.code < 300)

http_raises(r) == r.net = "transport" \/ ~(200 <= r.code /\ r.code < 300)

http_error(r) ==
    IF r.net = "transport"
    THEN Err("URLError", "urlopen error", None)
    ELSE Err("HTTPError", "HTTP Error <code>", None)

\* json.loads (lines 154, 194, 201) raises on a body that is not JSON.
json_raises(r) == r.body = BadBody

\* AcmeClient.get_json: the error it raises (NoErr: it returns the parsed body).
get_json_error(r) ==
    IF http_raises(r) THEN http_error(r)
    ELSE IF json_raises(r) THEN Err("ValueError", "JSONDecodeError", None)
    ELSE NoErr

\* Mutant: the replay-nonce header is not looked at.
head_nonce_error_any_header(r) ==
    IF http_raises(r) THEN http_error(r)
    ELSE IF r.code \notin {200, 204} THEN Err("RuntimeError", "newNonce failed", None)
    ELSE NoErr

\* AcmeClient._head_nonce: the error it raises (NoErr: it returns r.rn).
head_nonce_error(r) ==
    IF http_raises(r) THEN http_error(r)
    ELSE IF r.code \notin {200, 204} THEN Err("RuntimeError", "newNonce failed", None)
    ELSE IF ~Truthy(r.rn) THEN Err("RuntimeError", "missing replay-nonce", None)
    ELSE NoErr

\* str.strip() of a text made of pieces: the whitespace pieces are dropped.
Strip(text) ==
    LET kept == SelectSeq(text, LAMBDA x : x \notin {"\n", Empty})
    IN  IF kept = <<>> THEN Empty ELSE kept[1]

\* Mutant: the kid file is not read.
kid_of_unread(f) == None

\* AcmeClient._kid: the stripped content of the kid file, None when the file
\* is missing or empty.
kid_of(f) == IF f.exists THEN (IF Strip(f.text) = Empty THEN None ELSE Strip(f.text)) ELSE None

\* Mutant: only the newline is written.
save_kid_blank(kid) == File(<<"\n">>)

\* AcmeClient._save_kid: writes kid + "\n".
save_kid(kid) == File(<<kid, "\n">>)

\* Mutant: the empty payload is encoded like any other.
pl64_always_encoded(payload) == <<"b64url", payload>>

\* json_b64url / the payload field of the envelope: "" stays "", any JSON
\* value is encoded.
pl64(payload) == IF payload = Empty THEN <<>> ELSE <<"b64url", payload>>

\* AcmeClient._jws, line 170: a nonce is fetched only when none is cached.
jws_fetches == nonce = None

\* The responses the nonce fetch of _jws can get (NoResp: no fetch is made).
NonceResponses == Responses({200, 201, 204, 400}, NonceHdr, {None}, {NoBody})
FetchSet == IF jws_fetches THEN NonceResponses ELSE {NoResp}

\* AcmeClient._jws: the error it raises.
jws_error(use_kid, f) ==
    IF jws_fetches /\ head_nonce_error(f) # NoErr THEN head_nonce_error(f)
    ELSE IF use_kid /\ kid_of(kid_file) = None
         THEN Err("RuntimeError", "no account kid available", None)
    ELSE NoErr

\* Mutant: the jwk is put in every protected header.
jws_jwk_always(use_kid) == rsa_jwk_from_key

\* AcmeClient._jws, lines 173 and 178-179: the jwk member of the protected header.
jws_jwk(use_kid) == IF use_kid THEN NoJwk ELSE rsa_jwk_from_key

\* AcmeClient._jws, lines 173-177: the kid member of the protected header.
jws_kid(use_kid) == IF use_kid THEN kid_of(kid_file) ELSE None

\* AcmeClient._jws, line 172: the nonce put in the protected header.
jws_nonce(f) == IF jws_fetches THEN f.rn ELSE nonce

\* Mutant: the replay-nonce header of the response is not cached.
post_nonce_kept(r, cur) == cur

\* AcmeClient.post, line 192: headers.get("replay-nonce", self._nonce).
post_nonce(r, cur) == IF r.rn # None THEN r.rn ELSE cur

\* AcmeClient.post: the error it raises.
post_error(use_kid, f, r) ==
    IF jws_error(use_kid, f) # NoErr THEN jws_error(use_kid, f)
    ELSE get_json_error(r)

\* The spent nonces after a response: a value the CA sends again is usable again.
Resupplied(s, r) == IF r.net = "ok" THEN s \ {r.rn} ELSE s

Count(kind) == [nsent EXCEPT ![kind] = @ + 1]

\* Signed requests sent so far in this attempt.
signed_sent ==
    nsent["newAccount"] + nsent["newOrder"] + nsent["challenge"] + nsent["finalize"]
    + nsent["orderPoll"]

\* The response to a signed request as the CA sends it: a CA with the policy
\* "fresh" puts the next nonce it never issued on every response with a
\* success status.
served(r) ==
    IF ca = "fresh" /\ r.net = "ok" /\ r.code \in 200..299
    THEN [r EXCEPT !.rn = FreshNonces[signed_sent + 1]]
    ELSE r

\* AcmeClient.post(url, payload, use_kid) with f the response to the nonce
\* fetch of _jws (if one is made) and r the response to the POST.
post(kind, url, payload, use_kid, f, r) ==
    LET fetched == jws_fetches
        fetch_failed == fetched /\ head_nonce_error(f) # NoErr
        sent == jws_error(use_kid, f) = NoErr
        n == jws_nonce(f)
        s1 == IF fetched THEN Resupplied(spent, f) ELSE spent
        c1 == IF fetched THEN Count("newNonce") ELSE nsent
        rr == served(r)
    IN  /\ nonce' = IF fetch_failed THEN nonce
                    ELSE IF ~sent \/ http_raises(r) THEN n
                    ELSE post_nonce(rr, n)
        /\ req' = IF sent
                  THEN [kind |-> kind, method |-> "POST", url |-> url, nonce |-> n,
                        idby |-> IF use_kid THEN "kid" ELSE "jwk",
                        kid |-> jws_kid(use_kid), jwk |-> jws_jwk(use_kid),
                        payload |-> pl64(payload)]
                  ELSE IF fetched
                  THEN [NoReq EXCEPT !.kind = "newNonce", !.method = "HEAD", !.url = dir.newNonce]
                  ELSE req
        /\ resp' = IF sent THEN rr ELSE IF fetched THEN f ELSE resp
        /\ spent' = IF sent THEN Resupplied(s1 \cup {n}, rr) ELSE s1
        /\ nsent' = IF sent THEN [c1 EXCEPT ![kind] = @ + 1] ELSE c1
        /\ unanswered' = IF sent /\ r.net = "ok" THEN rr.rn = None
                         ELSE IF fetched THEN FALSE
                         ELSE unanswered

\* Mutant: the replay-nonce header of the response is cached as post does.
get_caching_nonce(kind, url, r) ==
    /\ req' = [NoReq EXCEPT !.kind = kind, !.method = "GET", !.url = url]
    /\ resp' = r
    /\ spent' = Resupplied(spent, r)
    /\ nsent' = Count(kind)
    /\ nonce' = IF r.net = "ok" /\ r.rn # None THEN r.rn ELSE nonce
    /\ UNCHANGED unanswered

\* AcmeClient.get_json / get_pem / the GET of directory(): an unsigned request;
\* the response's headers are not looked at.
get(kind, url, r) ==
    /\ req' = [NoReq EXCEPT !.kind = kind, !.method = "GET", !.url = url]
    /\ resp' = r
    /\ spent' = Resupplied(spent, r)
    /\ nsent' = Count(kind)
    /\ UNCHANGED <<nonce, unanswered>>

\* Mutant: the exception is caught and the step is tried again.
raise_and_retry(e) == pc' = pc /\ err' = e

\* An uncaught exception ends main(); raised by a method another caller
\* invoked, it goes back to that caller and the client lives on.
raise(e) == pc' = (IF call = "main" THEN "failed" ELSE "client") /\ err' = e

\* --------------------------------------------------------------- main()

\* LE_DIR / LE_STAGING_DIR.
dir_url == "directory"

DirResponses ==
    Responses({200, 202, 400}, {None, "n1"}, {None}, {NoBody, DirectoryBody})
    \cup {Garbled}
AccountResponses ==
    Responses({200, 201, 202, 400}, {None, "n1", "n2"}, {None, Empty, "kid1"}, {NoBody})
    \cup {Problem(202), Problem(400)}
OrderResponses ==
    Responses({200, 201, 202, 400}, NonceHdr, {None, Empty, "order1"},
              {NoBody, Body(TRUE, "pending", None, <<>>, None, None)})
    \cup {Garbled, Problem(202), Problem(400)}
AuthzBodies ==
    {Body(TRUE, "valid", None, cl, None, None) : cl \in {<<>>, <<Http1>>}}
    \cup {Body(TRUE, "pending", None, cl, None, None) : cl \in ChallengeLists}
    \cup {Body(TRUE, "invalid", "d1", <<Http1>>, None, None)}
AuthzResponses == Responses({200, 400}, {None, "n1"}, {None}, AuthzBodies) \cup {Garbled}
AuthzPollBodies ==
    {Body(TRUE, "pending", None, <<Http1>>, None, None),
     Body(TRUE, "valid", None, <<Http1>>, None, None),
     Body(TRUE, "invalid", "d1", <<Http1>>, None, None),
     Body(TRUE, "invalid", "d2", <<Http1>>, None, None)}
AuthzPollResponses ==
    Responses({200, 400}, {None, "n1"}, {None}, AuthzPollBodies) \cup {Garbled}
ChallengeResponses == Responses({200, 400}, {None, "n1", "n2"}, {None}, {NoBody})
FinalizeResponses == Responses({200, 400}, {None, "n1", "n2"}, {None}, {NoBody})
OrderPollBodies ==
    {Body(TRUE, "processing", None, <<>>, None, None),
     Body(TRUE, "processing", None, <<>>, "cert1", None),
     Body(TRUE, "valid", None, <<>>, None, None),
     Body(TRUE, "valid", None, <<>>, "cert1", None),
     Body(TRUE, "valid", None, <<>>, "cert2", None),
     Body(TRUE, "invalid", "d1", <<>>, None, None)}
OrderPollResponses ==
    Responses({200, 202, 400}, {None, "n1"}, {None}, OrderPollBodies) \cup {Garbled}
CertResponses ==
    Responses({200, 202, 400}, {None, "n1"}, {None},
              {Body(TRUE, None, None, <<>>, None, "pem1")})
    \cup {Problem(202), Problem(400)}

\* A token file left in challenge_dir by an earlier run under another account key.
StaleFile ==
    [name |-> "t1",
     text |-> <<"t1", ".", jwk_thumbprint(other_jwk)>>]

\* Mutant: a key is generated whether or not the file exists.
gen_rsa_key_always(key, generated) == generated

\* gen_rsa_key: an existing key file is kept, otherwise a key is generated.
gen_rsa_key(key, generated) == IF key # None THEN key ELSE generated

\* main(), lines 302 and 353: the paths out_dir/account.key.pem and
\* out_dir/<domain>.key.pem name one file when the domain is "account".
key_pem(name) == <<name, ".key.pem">>

same_key_file == key_pem(domain) = key_pem("account")

\* The content of out_dir/<domain>.key.pem.
domain_key_file == IF same_key_file THEN account_key ELSE domain_key

\* The state of main() at line 306: the account key exists (gen_rsa_key, line
\* 303) and the client is constructed.  prior: an earlier run left its files.
MainInit ==
    /\ pc = "directory"
    /\ dir = NoDir
    /\ nonce = None
    /\ kid_file \in {NoFile, File(<<"\n">>), save_kid("kid0")}
    /\ poll_timeout \in 0..MaxPollTimeout
    /\ elapsed = 0
    /\ order = NoOrder
    /\ authz = None
    /\ chall = NoChall
    /\ domain \in Domains
    /\ \E prior \in BOOLEAN :
          /\ chal_dir = IF prior THEN {StaleFile} ELSE {}
          /\ account_key = gen_rsa_key(IF prior THEN "ak0" ELSE None, GeneratedKeys[1])
          /\ domain_key = IF prior /\ ~same_key_file THEN "dk_old" ELSE None
          /\ fullchain = IF prior THEN "pem_old" ELSE None
          /\ privkey = IF ~prior THEN None ELSE IF same_key_file THEN "ak0" ELSE "dk_old"
    /\ run = 1
    /\ call = "main"
    /\ ncalls = 0
    /\ dirs = NoDirs
    /\ csr_key = None
    /\ codec = NoCodec
    /\ cert_url = None
    /\ err = NoErr
    /\ req = NoReq
    /\ resp = NoResp
    /\ spent = {}
    /\ nsent = [k \in Kinds |-> 0]
    /\ unanswered = FALSE
    /\ authz_polled = None
    /\ order_polled = None
    /\ conc = NoConc

\* main() starts; the CA is free in the replay-nonce headers it sends.
Init == MainInit /\ ca = "any"

\* Mutant: the newOrder URL is taken from the newAccount member.
directory_of_swapped(body) ==
    [newNonce |-> body.dir.newNonce, newAccount |-> body.dir.newAccount,
     newOrder |-> body.dir.newAccount]

\* AcmeClient.directory, line 155: AcmeDirectory(newNonce=j["newNonce"], ...).
directory_of(body) ==
    [newNonce |-> body.dir.newNonce, newAccount |-> body.dir.newAccount,
     newOrder |-> body.dir.newOrder]

\* Where directory() returns to: its caller, or line 213 of ensure_account
\* (main() goes on to ensure_account at line 307).
after_directory == IF call = "directory" THEN "client" ELSE "ensure_account"

\* AcmeClient.directory, lines 150-154: the error the GET part raises.
directory_error(r) ==
    IF http_raises(r) THEN http_error(r)
    ELSE IF r.code # 200 THEN Err("RuntimeError", "directory failed", None)
    ELSE IF json_raises(r) THEN get_json_error(r)
    ELSE IF ~r.body.complete THEN Err("KeyError", "newNonce", None)
    ELSE NoErr

\* AcmeClient.directory, lines 148-155: the cached directory is returned, or
\* the directory is fetched and stored.
Directory ==
    /\ pc = "directory"
    /\ IF dir # NoDir
       THEN /\ pc' = after_directory
            /\ dirs' = [dirs EXCEPT !.returned = TRUE, !.ret = dir]
            /\ UNCHANGED <<dir, nonce, err, req, resp, spent, nsent, unanswered>>
       ELSE \E r \in DirResponses :
               /\ get("directory", dir_url, r)
               /\ IF directory_error(r) # NoErr
                  THEN /\ raise(directory_error(r))
                       /\ dirs' = [dirs EXCEPT !.raised = TRUE]
                       /\ UNCHANGED dir
                  ELSE /\ dir' = directory_of(r.body)
                       /\ dirs' = [dirs EXCEPT !.served = r.body.dir]
                       /\ pc' = "dir_nonce"
                       /\ UNCHANGED err
    /\ UNCHANGED <<kid_file, poll_timeout, elapsed, flow_vars, file_vars, poll_vars,
                   ctx_vars, csr_key>>

\* AcmeClient.directory, line 156: self._nonce = self._head_nonce().
DirectoryNonce ==
    /\ pc = "dir_nonce"
    /\ \E r \in NonceResponses :
          /\ req' = [NoReq EXCEPT !.kind = "newNonce", !.method = "HEAD", !.url = dir.newNonce]
          /\ resp' = r
          /\ spent' = Resupplied(spent, r)
          /\ nsent' = Count("newNonce")
          /\ unanswered' = FALSE
          /\ IF head_nonce_error(r) # NoErr
             THEN /\ raise(head_nonce_error(r))
                  /\ dirs' = [dirs EXCEPT !.raised = TRUE, !.heads = @ + 1]
                  /\ UNCHANGED nonce
             ELSE /\ nonce' = r.rn
                  /\ dirs' = [dirs EXCEPT !.returned = TRUE, !.ret = dir, !.heads = @ + 1]
                  /\ pc' = after_directory
                  /\ UNCHANGED err
    /\ UNCHANGED <<dir, kid_file, poll_timeout, elapsed, flow_vars, file_vars, poll_vars,
                   ctx_vars, csr_key>>

\* Mutant: a response without Location header is accepted.
ensure_account_error_no_location(f, r) ==
    IF post_error(FALSE, f, r) # NoErr THEN post_error(FALSE, f, r)
    ELSE IF r.code \notin {200, 201} THEN Err("RuntimeError", "newAccount failed", None)
    ELSE NoErr

\* AcmeClient.ensure_account, lines 215-221: the error it raises.
ensure_account_error(f, r) ==
    IF post_error(FALSE, f, r) # NoErr THEN post_error(FALSE, f, r)
    ELSE IF r.code \notin {200, 201} THEN Err("RuntimeError", "newAccount failed", None)
    ELSE IF ~Truthy(r.loc) THEN Err("RuntimeError", "missing account Location header", None)
    ELSE NoErr

\* Where ensure_account returns to: line 310 of main(), or its caller.
after_ensure_account == IF call = "main" THEN "new_order" ELSE "client"

\* AcmeClient.ensure_account, lines 213-222, after its directory() call has
\* returned (called from main() line 307, that call finds the directory cached).
EnsureAccount ==
    /\ pc = "ensure_account"
    /\ IF kid_of(kid_file) # None
       THEN /\ pc' = after_ensure_account
            /\ UNCHANGED <<nonce, kid_file, err, req, resp, spent, nsent, unanswered>>
       ELSE \E f \in FetchSet, r \in AccountResponses :
               /\ post("newAccount", dir.newAccount, "account", FALSE, f, r)
               /\ IF ensure_account_error(f, r) # NoErr
                  THEN raise(ensure_account_error(f, r)) /\ UNCHANGED kid_file
                  ELSE /\ kid_file' = save_kid(r.loc)
                       /\ pc' = after_ensure_account
                       /\ UNCHANGED err
    /\ UNCHANGED <<dir, poll_timeout, elapsed, flow_vars, file_vars, poll_vars,
                   ctx_vars, dirs, csr_key>>

\* Mutant: neither the status nor the Location header is looked at.
new_order_error_lenient(f, r) ==
    IF post_error(TRUE, f, r) # NoErr THEN post_error(TRUE, f, r)
    ELSE IF ~r.body.complete THEN Err("KeyError", "finalize", None)
    ELSE NoErr

\* main(), lines 310-317: the error the new-order step raises.
new_order_error(f, r) ==
    IF post_error(TRUE, f, r) # NoErr THEN post_error(TRUE, f, r)
    ELSE IF r.code \notin {201, 200} THEN Err("RuntimeError", "newOrder failed", r.body.detail)
    ELSE IF ~Truthy(r.loc) THEN Err("RuntimeError", "missing order Location header", None)
    ELSE IF ~r.body.complete THEN Err("KeyError", "finalize", None)
    ELSE NoErr

NewOrder ==
    /\ pc = "new_order"
    /\ \E f \in FetchSet, r \in OrderResponses :
          /\ post("newOrder", dir.newOrder, "identifiers", TRUE, f, r)
          /\ IF new_order_error(f, r) # NoErr
             THEN raise(new_order_error(f, r)) /\ UNCHANGED order
             ELSE /\ order' = [url |-> r.loc, finalize |-> "finalize1", authz_url |-> "authz1"]
                  /\ pc' = "authz"
                  /\ UNCHANGED err
    /\ UNCHANGED <<dir, kid_file, poll_timeout, elapsed, authz, chall, cert_url,
                   file_vars, poll_vars, ctx_vars, dirs, csr_key>>

\* Mutant: the status of the first fetch is not looked at.
authz_valid_ignored(body) == FALSE

\* Mutant: every authorization that parses is taken for a valid one.
authz_valid_any_status(body) == TRUE

\* main(), line 321: an authorization that is already valid needs no challenge.
authz_valid(body) == body.status = "valid"

\* Mutant: the first challenge is taken whatever its type.
select_challenge_first(chs) == IF chs = <<>> THEN NoChall ELSE chs[1]

\* main(), lines 324-328: the first challenge of type http-01 (NoChall: none).
select_challenge(chs) ==
    LET idx == {i \in 1..Len(chs) : chs[i].type = "http-01"}
    IN  IF idx = {} THEN NoChall
        ELSE chs[CHOOSE i \in idx : \A j \in idx : i <= j]

\* main(), lines 333-334: token_path.write_text(key_auth) replaces the file.
\* Mutant: the text is appended to what the file holds.
write_text_appending(files, name, text) ==
    IF \E f \in files : f.name = name
    THEN {IF f.name = name THEN [f EXCEPT !.text = @ \o text] ELSE f : f \in files}
    ELSE files \cup {[name |-> name, text |-> text]}

\* Path.write_text: the file is created or its content replaced.
write_text(files, name, text) ==
    {f \in files : f.name # name} \cup {[name |-> name, text |-> text]}

\* main(), lines 331-334: the key authorization is published under the token.
publish(files, ch) == write_text(files, ch.token, http01_key_authorization(ch.token))

\* main(), lines 320-334: fetch the authorization; unless it is valid, select
\* the http-01 challenge and publish its key authorization.
AuthzFetch ==
    /\ pc = "authz"
    /\ \E r \in AuthzResponses :
          /\ get("authz", order.authz_url, r)
          /\ IF get_json_error(r) # NoErr
             THEN raise(get_json_error(r)) /\ UNCHANGED <<authz, chall, chal_dir>>
             ELSE /\ authz' = r.body.status
                  /\ IF authz_valid(r.body)
                     THEN pc' = "finalize" /\ UNCHANGED <<chall, chal_dir, err>>
                     ELSE IF select_challenge(r.body.challenges) = NoChall
                     THEN /\ raise(Err("RuntimeError", "no http-01 challenge found", None))
                          /\ UNCHANGED <<chall, chal_dir>>
                     ELSE /\ chall' = select_challenge(r.body.challenges)
                          /\ chal_dir' = publish(chal_dir, chall')
                          /\ pc' = "notify"
                          /\ UNCHANGED err
    /\ UNCHANGED <<dir, kid_file, poll_timeout, elapsed, order, cert_url, domain_key,
                   fullchain, privkey, poll_vars, ctx_vars, dirs, csr_key>>

\* main(), lines 337-340: signal readiness to the challenge URL, start the clock.
Notify ==
    /\ pc = "notify"
    /\ \E f \in FetchSet, r \in ChallengeResponses :
          /\ post("challenge", chall.url, "{}", TRUE, f, r)
          /\ IF post_error(TRUE, f, r) # NoErr
             THEN raise(post_error(TRUE, f, r))
             ELSE pc' = "poll_authz" /\ UNCHANGED err
    /\ elapsed' = 0
    /\ UNCHANGED <<dir, kid_file, poll_timeout, flow_vars, file_vars, poll_vars,
                   ctx_vars, dirs, csr_key>>

\* Mutant: an invalid authorization is polled again like a pending one.
authz_poll_outcome_no_invalid(body) ==
    IF body.status = "valid" THEN "break" ELSE "sleep"

\* Mutant: any final status leaves the loop as a success.
authz_poll_outcome_any_final(body) ==
    IF body.status \in {"valid", "invalid"} THEN "break" ELSE "sleep"

\* main(), lines 343-348: what one authorization poll leads to.
authz_poll_outcome(body) ==
    IF body.status = "valid" THEN "break"
    ELSE IF body.status = "invalid" THEN "raise"
    ELSE "sleep"

\* main(), line 347: the message quotes the whole authorization object.
authz_invalid_error(body) == Err("RuntimeError", "authorization invalid", body.detail)

\* Mutant: the elapsed time is not looked at.
poll_continues_always == TRUE

\* Mutant: one more iteration when the elapsed time equals the timeout.
poll_continues_inclusive == elapsed <= poll_timeout

\* main(), lines 341 / 363: the loop runs while the elapsed time is below the timeout.
poll_continues == elapsed < poll_timeout

\* main(), lines 341-350: one iteration of the authorization polling loop, or
\* its else branch when the time is up.
PollAuthz ==
    /\ pc = "poll_authz"
    /\ IF ~poll_continues
       THEN /\ raise(Err("RuntimeError", "authorization poll timeout", None))
            /\ authz_polled' = "timeout"
            /\ UNCHANGED <<elapsed, req, resp, spent, nsent, nonce, unanswered>>
       ELSE \E r \in AuthzPollResponses :
               /\ get("authzPoll", order.authz_url, r)
               /\ IF get_json_error(r) # NoErr
                  THEN /\ raise(get_json_error(r))
                       /\ authz_polled' = "error"
                       /\ UNCHANGED elapsed
                  ELSE IF authz_poll_outcome(r.body) = "break"
                  THEN /\ pc' = "finalize"
                       /\ authz_polled' = "valid"
                       /\ UNCHANGED <<elapsed, err>>
                  ELSE IF authz_poll_outcome(r.body) = "raise"
                  THEN /\ raise(authz_invalid_error(r.body))
                       /\ authz_polled' = "invalid"
                       /\ UNCHANGED elapsed
                  ELSE /\ \E d \in 1..MaxTick : elapsed' = elapsed + d
                       /\ UNCHANGED <<pc, err, authz_polled>>
    /\ UNCHANGED <<dir, kid_file, poll_timeout, flow_vars, file_vars, order_polled,
                   ctx_vars, dirs, csr_key>>

\* main(), lines 353-362: domain key, CSR (openssl may fail), finalize POST.
Finalize ==
    /\ pc = "finalize"
    /\ domain_key' = IF same_key_file THEN domain_key
                     ELSE gen_rsa_key(domain_key_file, "dk_new")
    /\ \E csr_ok \in BOOLEAN :
          IF ~csr_ok
          THEN /\ raise(Err("RuntimeError", "command failed", None))
               /\ UNCHANGED <<nonce, req, resp, spent, nsent, unanswered, csr_key>>
          ELSE \E f \in FetchSet, r \in FinalizeResponses :
                  /\ csr_key' = gen_rsa_key(domain_key_file, "dk_new")
                  /\ post("finalize", order.finalize, "csr", TRUE, f, r)
                  /\ IF post_error(TRUE, f, r) # NoErr
                     THEN raise(post_error(TRUE, f, r))
                     ELSE pc' = "poll_order" /\ UNCHANGED err
    /\ elapsed' = 0
    /\ UNCHANGED <<dir, kid_file, poll_timeout, flow_vars, chal_dir, fullchain, privkey,
                   poll_vars, ctx_vars, dirs>>

\* Mutant: a valid order ends the loop whether or not it names a certificate.
order_poll_outcome_any_valid(r) ==
    IF r.code \notin {200, 201} THEN "sleep"
    ELSE IF r.body.status = "valid" THEN "break"
    ELSE IF r.body.status = "invalid" THEN "raise"
    ELSE "sleep"

\* main(), lines 366-374: what one order poll leads to.
order_poll_outcome(r) ==
    IF r.code \notin {200, 201} THEN "sleep"
    ELSE IF r.body.status = "valid" /\ Truthy(r.body.certificate) THEN "break"
    ELSE IF r.body.status = "invalid" THEN "raise"
    ELSE "sleep"

\* main(), line 373: the message quotes the whole order object.
order_invalid_error(body) == Err("RuntimeError", "order invalid", body.detail)

\* main(), lines 375-376: without a certificate URL the attempt ends in the
\* timeout error, with one the chain is downloaded.
after_order_poll(url) ==
    IF ~Truthy(url)
    THEN raise(Err("RuntimeError", "order poll timeout", None))
    ELSE pc' = "download" /\ UNCHANGED err

\* main(), lines 363-376: one iteration of the order polling loop (POST-as-GET),
\* or the timeout error when the time is up.
PollOrder ==
    /\ pc = "poll_order"
    /\ IF ~poll_continues
       THEN /\ after_order_poll(cert_url)
            /\ order_polled' = "timeout"
            /\ UNCHANGED <<elapsed, cert_url, req, resp, spent, nsent, nonce, unanswered>>
       ELSE \E f \in FetchSet, r \in OrderPollResponses :
               /\ post("orderPoll", order.url, Empty, TRUE, f, r)
               /\ IF post_error(TRUE, f, r) # NoErr
                  THEN /\ raise(post_error(TRUE, f, r))
                       /\ order_polled' = "error"
                       /\ UNCHANGED <<elapsed, cert_url>>
                  ELSE IF order_poll_outcome(r) = "break"
                  THEN /\ cert_url' = r.body.certificate
                       /\ after_order_poll(cert_url')
                       /\ order_polled' = "valid"
                       /\ UNCHANGED elapsed
                  ELSE IF order_poll_outcome(r) = "raise"
                  THEN /\ raise(order_invalid_error(r.body))
                       /\ order_polled' = "invalid"
                       /\ UNCHANGED <<elapsed, cert_url>>
                  ELSE /\ \E d \in 1..MaxTick : elapsed' = elapsed + d
                       /\ UNCHANGED <<pc, err, cert_url, order_polled>>
    /\ UNCHANGED <<dir, kid_file, poll_timeout, order, authz, chall, file_vars,
                   authz_polled, ctx_vars, dirs, csr_key>>

\* Mutant: every 2xx status is taken for a certificate.
get_pem_error_any_2xx(r) == IF http_raises(r) THEN http_error(r) ELSE NoErr

\* AcmeClient.get_pem, lines 206-208: the error it raises.
get_pem_error(r) ==
    IF http_raises(r) THEN http_error(r)
    ELSE IF r.code # 200 THEN Err("RuntimeError", "cert download failed", None)
    ELSE NoErr

\* Mutant: privkey.pem is written before the chain is downloaded.
Download_key_first ==
    /\ pc = "download"
    /\ privkey' = domain_key_file
    /\ \E r \in CertResponses :
          /\ get("certificate", cert_url, r)
          /\ IF get_pem_error(r) # NoErr
             THEN raise(get_pem_error(r)) /\ UNCHANGED fullchain
             ELSE /\ fullchain' = r.body.pem
                  /\ pc' = "done"
                  /\ UNCHANGED err
    /\ UNCHANGED <<dir, kid_file, poll_timeout, elapsed, flow_vars, chal_dir, domain_key,
                   poll_vars, ctx_vars, dirs, csr_key>>

\* main(), lines 378-385: download the chain, write fullchain.pem and privkey.pem.
Download ==
    /\ pc = "download"
    /\ \E r \in CertResponses :
          /\ get("certificate", cert_url, r)
          /\ IF get_pem_error(r) # NoErr
             THEN raise(get_pem_error(r)) /\ UNCHANGED <<fullchain, privkey>>
             ELSE /\ fullchain' = r.body.pem
                  /\ privkey' = domain_key_file
                  /\ pc' = "done"
                  /\ UNCHANGED err
    /\ UNCHANGED <<dir, kid_file, poll_timeout, elapsed, flow_vars, chal_dir, domain_key,
                   poll_vars, ctx_vars, dirs, csr_key>>

Next ==
    \/ Directory
    \/ DirectoryNonce
    \/ EnsureAccount
    \/ NewOrder
    \/ AuthzFetch
    \/ Notify
    \/ PollAuthz
    \/ Finalize
    \/ PollOrder
    \/ Download

Spec == Init /\ [][Next]_vars

\* One run of main() against a CA whose nonces are always fresh.
FreshInit == MainInit /\ ca = "fresh"

FreshSpec == FreshInit /\ [][Next]_vars

\* main() starts on a new output directory.
FairInit ==
    /\ Init
    /\ domain = "example.org"
    /\ fullchain = None
    /\ kid_file = NoFile

\* One run of main() in which a step that can be taken is taken: every call
\* main() makes returns, and main() goes on.
FairSpec == FairInit /\ [][Next]_vars /\ WF_vars(Next)

\* ------------------------------------------- a client and another caller

\* A freshly constructed AcmeClient (lines 120-127) in the hands of a caller
\* other than main(): the account key exists, nothing is cached.
ClientInit ==
    /\ pc = "client"
    /\ dir = NoDir
    /\ nonce = None
    /\ kid_file \in {NoFile, File(<<"\n">>), save_kid("kid0")}
    /\ poll_timeout = 0
    /\ elapsed = 0
    /\ order = NoOrder
    /\ authz = None
    /\ chall = NoChall
    /\ chal_dir = {}
    /\ domain_key = None
    /\ fullchain = None
    /\ privkey = None
    /\ cert_url = None
    /\ err = NoErr
    /\ req = NoReq
    /\ resp = NoResp
    /\ spent = {}
    /\ nsent = [k \in Kinds |-> 0]
    /\ unanswered = FALSE
    /\ authz_polled = None
    /\ order_polled = None
    /\ run = 1
    /\ account_key = "ak0"
    /\ call = None
    /\ ncalls = 0
    /\ dirs = NoDirs
    /\ csr_key = None
    /\ domain = "example.org"
    /\ codec = NoCodec
    /\ ca = "any"
    /\ conc = NoConc

\* The caller invokes directory(), ensure_account(email) or
\* post(newOrder, payload, use_kid=True); ensure_account starts with its
\* directory() call (line 212).
Call ==
    /\ pc = "client"
    /\ ncalls < MaxCalls
    /\ \E op \in {"directory", "ensure_account", "post"} :
          /\ call' = op
          /\ pc' = IF op = "post" THEN "post" ELSE "directory"
    /\ ncalls' = ncalls + 1
    /\ err' = NoErr
    /\ UNCHANGED <<dir, nonce, kid_file, poll_timeout, elapsed, flow_vars, file_vars,
                   req, resp, spent, nsent, unanswered, poll_vars, run, account_key,
                   dirs, csr_key, domain, codec, ca, conc>>

\* AcmeClient.post called with use_kid=True.  When no nonce is cached _jws
\* calls _head_nonce, whose first line asserts that the directory is stored;
\* with assertions compiled out the attribute access of line 138 fails instead.
ClientPost ==
    /\ pc = "post"
    /\ IF jws_fetches /\ dir = NoDir
       THEN /\ \E t \in {"AssertionError", "AttributeError"} : raise(Err(t, "_dir", None))
            /\ UNCHANGED <<nonce, req, resp, spent, nsent, unanswered>>
       ELSE \E f \in FetchSet, r \in OrderResponses :
               /\ post("newOrder", dir.newOrder, "identifiers", TRUE, f, r)
               /\ IF post_error(TRUE, f, r) # NoErr
                  THEN raise(post_error(TRUE, f, r))
                  ELSE pc' = "client" /\ UNCHANGED err
    /\ UNCHANGED <<dir, kid_file, poll_timeout, elapsed, flow_vars, file_vars, poll_vars,
                   ctx_vars, dirs, csr_key>>

ClientNext ==
    \/ Call
    \/ Directory
    \/ DirectoryNonce
    \/ EnsureAccount
    \/ ClientPost

ClientSpec == ClientInit /\ [][ClientNext]_vars

\* --------------------------------------- runs that share one out_dir

\* Before the first run: the output directory holds any of the files an
\* earlier use may have left, with or without an account key.
RunsInit ==
    /\ pc = "start"
    /\ dir = NoDir
    /\ nonce = None
    /\ kid_file \in {NoFile, save_kid("kid0")}
    /\ poll_timeout = RunsPollTimeout
    /\ elapsed = 0
    /\ order = NoOrder
    /\ authz = None
    /\ chall = NoChall
    /\ chal_dir = {}
    /\ domain_key = None
    /\ fullchain = None
    /\ privkey = None
    /\ cert_url = None
    /\ err = NoErr
    /\ req = NoReq
    /\ resp = NoResp
    /\ spent = {}
    /\ nsent = [k \in Kinds |-> 0]
    /\ unanswered = FALSE
    /\ authz_polled = None
    /\ order_polled = None
    /\ run = 0
    /\ account_key \in {None, "ak0"}
    /\ call = "main"
    /\ ncalls = 0
    /\ dirs = NoDirs
    /\ csr_key = None
    /\ domain = "example.org"
    /\ codec = NoCodec
    /\ ca = "any"
    /\ conc = NoConc

\* A run of main() begins, the one before (if any) having ended: lines 291-305.
\* The files stay; the process, its client and the history of its requests
\* are new.
StartRun ==
    /\ pc \in {"start", "done", "failed"}
    /\ run < MaxRuns
    /\ run' = run + 1
    /\ account_key' = gen_rsa_key(account_key, GeneratedKeys[run'])
    /\ pc' = "directory"
    /\ dir' = NoDir
    /\ nonce' = None
    /\ elapsed' = 0
    /\ order' = NoOrder
    /\ authz' = None
    /\ chall' = NoChall
    /\ cert_url' = None
    /\ err' = NoErr
    /\ req' = NoReq
    /\ resp' = NoResp
    /\ spent' = {}
    /\ nsent' = [k \in Kinds |-> 0]
    /\ unanswered' = FALSE
    /\ authz_polled' = None
    /\ order_polled' = None
    /\ dirs' = NoDirs
    /\ csr_key' = None
    /\ UNCHANGED <<kid_file, poll_timeout, file_vars, call, ncalls, domain, codec,
                   ca, conc>>

RunsNext == Next \/ StartRun

RunsSpec == RunsInit /\ [][RunsNext]_vars

\* ------------------------------------- the encoders, one call at a time

\* Mutant: the empty payload is encoded like any other.
jws_payload_always_encoded(payload) == json_b64url(payload)

\* AcmeClient._jws, line 182: the payload member of the envelope.
jws_payload(payload) == IF payload = Str(<<>>) THEN <<>> ELSE json_b64url(payload)

\* Mutant: the two parts are signed without the dot between them.
signing_input_no_dot(p64, pl) == encode(p64 \o pl)

\* AcmeClient._jws, line 183.
signing_input(p64, pl) == encode(p64 \o <<".">> \o pl)

\* AcmeClient._jws, lines 172-186, when a nonce is cached and, for use_kid,
\* the kid file holds a kid: the body it returns.
jws(key, nonce_, kid, url, payload, use_kid) ==
    LET protected ==
            Dict(<<<<<<"a", "l", "g">>, Str(<<"R", "S", "2", "5", "6">>)>>,
                   <<<<"n", "o", "n", "c", "e">>, Str(nonce_)>>,
                   <<<<"u", "r", "l">>, Str(url)>>,
                   IF use_kid THEN <<<<"k", "i", "d">>, Str(kid)>>
                   ELSE <<<<"j", "w", "k">>, rsa_jwk_from_key>>>>)
        p64 == json_b64url(protected)
        pl == jws_payload(payload)
        sig == b64url(sign_rs256(key, signing_input(p64, pl)))
    IN  encode(json_dumps(
            Dict(<<<<<<"p", "r", "o", "t", "e", "c", "t", "e", "d">>, Str(p64)>>,
                   <<<<"p", "a", "y", "l", "o", "a", "d">>, Str(pl)>>,
                   <<<<"s", "i", "g", "n", "a", "t", "u", "r", "e">>, Str(sig)>>>>),
            FALSE, <<",", " ">>, <<":", " ">>))

\* The arguments the encoders are called with.
PayloadChars == {"a", "\"", "\\"}
Strs == UNION {[1..k -> PayloadChars] : k \in 0..MaxStr}
PayloadKeys == {<<"a">>, <<"b">>, <<"a", "b">>}
Payloads ==
    {Str(v) : v \in Strs}
    \cup {Dict(<<>>), Dict(<<<<<<"j">>, rsa_jwk_from_key>>>>)}
    \cup {Dict(<<<<k, Str(v)>>>>) : k \in PayloadKeys, v \in Strs}
    \cup {Dict(<<<<kk[1], Str(v)>>, <<kk[2], Str(v)>>>>) :
              kk \in {x \in PayloadKeys \X PayloadKeys : x[1] # x[2]}, v \in Strs}
Urls == {<<"u", "1">>, <<"u", "2">>}
\* The JWKs of two keys, their members inserted in every order.
Jwks ==
    {Dict([i \in 1..Len(jwk.o) |-> jwk.o[perm[i]]]) :
        jwk \in {rsa_jwk_from_key, other_jwk},
        perm \in {f \in [1..3 -> 1..3] : \A i, j \in 1..3 : f[i] = f[j] => i = j}}

\* What challenge_dir may hold: token files of this account key or of another,
\* no two of one name.
ChallengeDirs ==
    {d \in SUBSET ({StaleFile}
                   \cup {[name |-> t, text |-> http01_key_authorization(t)] : t \in {"t1", "t2"}}) :
        \A f, g \in d : f.name = g.name => f = g}

\* One of json_b64url, AcmeClient.post, jwk_thumbprint and the publication
\* of main() is about to be called with arguments out of these sets; the
\* client of post has a nonce cached and a kid on file.
CodecInit ==
    /\ pc = "codec"
    /\ dir = NoDir
    /\ nonce = None
    /\ kid_file = NoFile
    /\ poll_timeout = 0
    /\ elapsed = 0
    /\ order = NoOrder
    /\ authz = None
    /\ chall = NoChall
    /\ chal_dir = {}
    /\ domain_key = None
    /\ fullchain = None
    /\ privkey = None
    /\ cert_url = None
    /\ err = NoErr
    /\ req = NoReq
    /\ resp = NoResp
    /\ spent = {}
    /\ nsent = [k \in Kinds |-> 0]
    /\ unanswered = FALSE
    /\ authz_polled = None
    /\ order_polled = None
    /\ run = 1
    /\ call = None
    /\ ncalls = 0
    /\ dirs = NoDirs
    /\ csr_key = None
    /\ domain = "example.org"
    /\ account_key \in {"ak0", "ak1"}
    /\ ca = "any"
    /\ conc = NoConc
    /\ codec \in
          {[NoCodec EXCEPT !.fn = "json_b64url", !.payload = v] : v \in Payloads}
          \cup {[NoCodec EXCEPT !.fn = "post", !.payload = v, !.url = u, !.use_kid = k,
                                !.nonce = <<"n", "1">>, !.kid = <<"k", "1">>] :
                    v \in Payloads, u \in Urls, k \in BOOLEAN}
          \cup {[NoCodec EXCEPT !.fn = "jwk_thumbprint", !.jwks = <<a, b, a>>] :
                    a \in Jwks, b \in Jwks}
          \cup {[NoCodec EXCEPT !.fn = "publish", !.ch = c, !.chal_dirs = <<d>>] :
                    c \in {Http1, Http2}, d \in ChallengeDirs}

\* json_b64url(payload) is called.
JsonB64url ==
    /\ codec.fn = "json_b64url" /\ codec.step = 0
    /\ codec' = [codec EXCEPT !.step = 1, !.b64 = json_b64url(codec.payload)]
    /\ UNCHANGED main_vars

\* AcmeClient.post, lines 189-190: the request it hands to urlopen.
JwsPost ==
    /\ codec.fn = "post" /\ codec.step = 0
    /\ codec' = [codec EXCEPT
                    !.step = 1,
                    !.request = [url |-> codec.url,
                                 data |-> jws(account_key, codec.nonce, codec.kid,
                                              codec.url, codec.payload, codec.use_kid)]]
    /\ UNCHANGED main_vars

\* jwk_thumbprint is called on the next of the JWKs.
JwkThumbprint ==
    /\ codec.fn = "jwk_thumbprint" /\ codec.step < Len(codec.jwks)
    /\ codec' = [codec EXCEPT
                    !.step = @ + 1,
                    !.thumbs = Append(@, jwk_thumbprint(codec.jwks[codec.step + 1]))]
    /\ UNCHANGED main_vars

\* main(), lines 331-334, run on what the last publication left.
Publish ==
    /\ codec.fn = "publish" /\ Len(codec.chal_dirs) < 3
    /\ codec' = [codec EXCEPT
                    !.chal_dirs = Append(@, publish(@[Len(@)], codec.ch))]
    /\ UNCHANGED main_vars

CodecNext ==
    \/ JsonB64url
    \/ JwsPost
    \/ JwkThumbprint
    \/ Publish

CodecSpec == CodecInit /\ [][CodecNext]_vars

\* --------------------------------------------------------------- claims

\* A signed request is sent in this step.
SignedSent == \E k \in SignedKinds : nsent'[k] # nsent[k]

\* A response to a signed request is received in this step.
SignedAnswered == SignedSent /\ resp'.net = "ok"

\* C1: whenever a response carrying a replay-nonce header is received, with a
\* success or an error status, the cached nonce right afterwards is that
\* header's value.  Stated for the responses to signed requests, the ones the
\* nonce cache exists for.
C1_NonceOverwrittenByEveryResponse ==
    [][SignedAnswered /\ resp'.rn # None => nonce' = resp'.rn]_vars

\* C2: no nonce value is put in the protected header of two signed requests
\* unless a response received between the two uses supplied it again.
C2_NoNonceReuse ==
    [][SignedSent => req'.nonce \notin spent]_vars

\* C3: after a signed response without a replay-nonce header, the next signed
\* request is preceded by an explicit newNonce fetch.
C3_FetchAfterMissingNonce ==
    [][SignedSent /\ unanswered => nsent'["newNonce"] > nsent["newNonce"]]_vars

\* C4: every signed request carries a non-empty nonce in its protected header.
C4_NonEmptyNonce ==
    req.kind \in SignedKinds => Truthy(req.nonce)

\* C5: when the first fetch of the authorization returns valid, nothing is
\* published, no readiness POST is sent, the authorization is not polled, and
\* the next step is the CSR and the finalize POST.
C5_ValidAuthzSkipsChallenge ==
    authz = "valid" =>
        /\ chal_dir \subseteq {StaleFile}
        /\ chall = NoChall
        /\ nsent["challenge"] = 0
        /\ nsent["authzPoll"] = 0
        /\ nsent["finalize"] = 0 =>
              \/ pc = "finalize"
              \/ pc = "failed" /\ err.msg = "command failed"

C5_Witness ==
    authz = "valid" /\ pc = "poll_order" /\ nsent["finalize"] = 1

\* The last exchange was an authorization poll answered with status invalid.
InvalidAuthzPolled ==
    req.kind = "authzPoll" /\ get_json_error(resp) = NoErr /\ resp.body.status = "invalid"

\* C6: an authorization poll answered with status invalid ends the attempt in
\* an error that carries the CA's detail; no finalize POST, order poll or
\* certificate download is sent.
C6_InvalidAuthzIsFatal ==
    InvalidAuthzPolled =>
        /\ pc = "failed"
        /\ err.msg = "authorization invalid"
        /\ Truthy(err.detail)
        /\ err.detail = resp.body.detail
        /\ nsent["finalize"] = 0
        /\ nsent["orderPoll"] = 0
        /\ nsent["certificate"] = 0

\* Pending on the first poll, invalid on the second.
C6_Witness ==
    InvalidAuthzPolled /\ nsent["authzPoll"] = 2

\* The error messages of the protocol errors (a required field is missing).
ProtocolMsgs ==
    {"missing replay-nonce", "missing account Location header",
     "missing order Location header", "newNonce", "finalize"}

\* C7: when the time of the order polling loop is up without a certificate
\* URL, the attempt ends in the timeout error, which differs from the protocol
\* errors and from the order-invalid error, and no download is made.
C7_OrderPollTimeout ==
    [][pc = "poll_order" /\ elapsed >= poll_timeout =>
          /\ pc' = "failed"
          /\ err'.msg = "order poll timeout"
          /\ err'.msg \notin ProtocolMsgs
          /\ \A b \in OrderPollBodies : err' # order_invalid_error(b)
          /\ nsent' = nsent
          /\ nsent["certificate"] = 0]_vars

C7_Witness ==
    pc = "failed" /\ err.msg = "order poll timeout" /\ nsent["orderPoll"] = 2

\* The authorization polling loop is left in this step.
AuthzPollingEnds == pc = "poll_authz" /\ pc' # "poll_authz"

\* An authorization poll is answered with a 2xx JSON response in this step.
AuthzPolled ==
    nsent'["authzPoll"] = nsent["authzPoll"] + 1 /\ get_json_error(resp') = NoErr

EndsValid ==
    AuthzPolled /\ resp'.body.status = "valid" /\ pc' = "finalize" /\ err' = NoErr

EndsInvalid ==
    /\ AuthzPolled /\ resp'.body.status = "invalid"
    /\ pc' = "failed" /\ err'.msg = "authorization invalid"

EndsTimeout ==
    /\ nsent' = nsent /\ elapsed >= poll_timeout
    /\ pc' = "failed" /\ err'.msg = "authorization poll timeout"
    /\ nsent'["finalize"] = 0

EndsRequestFailed ==
    /\ nsent'["authzPoll"] = nsent["authzPoll"] + 1 /\ get_json_error(resp') # NoErr
    /\ pc' = "failed" /\ err' = get_json_error(resp')
    /\ nsent'["finalize"] = 0

ExactlyOne(bs) == Cardinality({i \in 1..Len(bs) : bs[i]}) = 1

\* C8 as claimed: authorization polling ends in exactly one of three ways:
\* a poll returns valid, a poll returns invalid, or the timeout elapses.
C8_ThreeWays ==
    [][AuthzPollingEnds => ExactlyOne(<<EndsValid, EndsInvalid, EndsTimeout>>)]_vars

\* C8, amended: authorization polling ends in exactly one of four ways: a
\* poll returns valid (on to finalization), a poll returns invalid (fatal),
\* the timeout elapses (timeout error, no finalize POST), or a poll request
\* fails: transport error, non-2xx status or unreadable body (fatal, no
\* finalize POST).
C8_FourWays ==
    [][AuthzPollingEnds =>
          ExactlyOne(<<EndsValid, EndsInvalid, EndsTimeout, EndsRequestFailed>>)]_vars

\* The second poll fails.
C8_Witness ==
    /\ req.kind = "authzPoll" /\ get_json_error(resp) # NoErr
    /\ pc = "failed" /\ nsent["authzPoll"] = 2

\* C9: when the readiness POST is sent to the challenge URL, the file named
\* after the selected http-01 token already holds token + "." + thumbprint of
\* the account key.
C9_PublishedBeforeReady ==
    [][nsent'["challenge"] # nsent["challenge"] =>
          /\ chall.type = "http-01"
          /\ req'.url = chall.url
          /\ \E f \in chal_dir : f.name = chall.token
          /\ \A f \in chal_dir :
                f.name = chall.token =>
                    f.text = <<chall.token, ".", jwk_thumbprint(rsa_jwk_from_key)>>]_vars

C9_Witness ==
    pc = "poll_authz" /\ nsent["challenge"] = 1 /\ chall = Http2

\* An order poll is answered with a 2xx JSON response in this step.
OrderPolled == nsent'["orderPoll"] # nsent["orderPoll"] /\ get_json_error(resp') = NoErr

\* The download is requested right after an order poll answered with status
\* valid and a certificate URL, and it goes to that URL.
DownloadAfterValid ==
    nsent'["certificate"] # nsent["certificate"] =>
        /\ req.kind = "orderPoll" /\ get_json_error(resp) = NoErr
        /\ resp.body.status = "valid" /\ Truthy(resp.body.certificate)
        /\ req'.url = resp.body.certificate

\* An order poll answered with status invalid, under one of these HTTP
\* statuses, ends the attempt in the order-invalid error, with no download.
InvalidOrderIsFatal(codes) ==
    OrderPolled /\ resp'.code \in codes /\ resp'.body.status = "invalid" =>
        pc' = "failed" /\ err'.msg = "order invalid" /\ nsent'["certificate"] = 0

\* An order poll answered with status valid and no certificate URL goes on polling.
ValidWithoutUrlGoesOn ==
    OrderPolled /\ resp'.body.status = "valid" /\ ~Truthy(resp'.body.certificate) =>
        pc' = "poll_order" /\ err' = NoErr

\* C10 as claimed: the download follows a valid order poll response with a
\* certificate URL and targets it; every order poll response with status
\* invalid is fatal; valid without a certificate URL does not end polling.
C10_DownloadOnlyWhenReady ==
    [][DownloadAfterValid /\ InvalidOrderIsFatal(200..299) /\ ValidWithoutUrlGoesOn]_vars

\* C10, amended: as claimed, except that status invalid is fatal only in a
\* response with HTTP status 200 or 201; a response with another 2xx status
\* is skipped whatever its body says, and polling goes on.
C10_DownloadOnlyWhenReady200 ==
    [][/\ DownloadAfterValid
       /\ InvalidOrderIsFatal({200, 201})
       /\ ValidWithoutUrlGoesOn
       /\ OrderPolled /\ resp'.code \notin {200, 201} => pc' = "poll_order" /\ err' = NoErr]_vars

C10_Witness ==
    req.kind = "certificate" /\ req.url = "cert2" /\ pc = "done"

\* C11: every order poll is a POST to the order URL whose protected header
\* carries the account kid (and no jwk) and whose payload field is the empty
\* string; no unsigned GET goes to the order URL.
C11_OrderPollIsPostAsGet ==
    /\ req.kind = "orderPoll" =>
          /\ req.method = "POST"
          /\ req.url = order.url
          /\ Truthy(req.kid) /\ req.kid = kid_of(kid_file)
          /\ req.jwk = NoJwk
          /\ req.payload = <<>>
    /\ order # NoOrder /\ req.url = order.url =>
          req.kind = "orderPoll" /\ req.method # "GET"

\* The second order poll has been answered.
C11_Witness ==
    req.kind = "orderPoll" /\ nsent["orderPoll"] = 2 /\ resp.net = "ok"

\* A step inside a call of ensure_account.
InEnsureAccount == call = "ensure_account" /\ pc # "client"

\* C12: in every client state in which a kid is persisted, also that of a
\* freshly constructed client, no step of an ensure_account call sends a request.
C12_NoNetworkCallWithKid ==
    [][InEnsureAccount /\ kid_of(kid_file) # None => nsent' = nsent]_vars

\* C13: the protected header of every signed request has exactly one of jwk
\* and kid: the newAccount request has the jwk of the account key and no kid,
\* every other signed request has the persisted kid and no jwk.
C13_JwkXorKid ==
    req.kind \in SignedKinds =>
        /\ (req.jwk # NoJwk) # (req.kid # None)
        /\ req.kind = "newAccount" => req.jwk = rsa_jwk_from_key /\ req.kid = None
        /\ req.kind # "newAccount" =>
              /\ req.jwk = NoJwk
              /\ Truthy(req.kid)
              /\ req.kid = kid_of(kid_file)

\* The account was registered in this run and the finalize POST carries its kid.
C13_Witness ==
    req.kind = "finalize" /\ nsent["newAccount"] = 1 /\ req.kid = "kid1"

\* The newAccount POST is answered in this step.
NewAccountAnswered ==
    nsent'["newAccount"] = nsent["newAccount"] + 1 /\ resp'.net = "ok"

\* C14: when no kid is persisted and the newAccount response has a 2xx status
\* and a Location header, ensure_account returns normally and the persisted
\* kid is the Location value.
C14_Any2xxRegisters ==
    [][NewAccountAnswered /\ 200 <= resp'.code /\ resp'.code < 300 /\ Truthy(resp'.loc) =>
          /\ err' = NoErr
          /\ pc' = after_ensure_account
          /\ kid_of(kid_file') = resp'.loc]_vars

\* The signed requests other than newAccount: their header needs the kid.
KidKinds == SignedKinds \ {"newAccount"}

\* C15: a newAccount response with a 2xx status and no Location header makes
\* ensure_account raise the client's own error (the missing-header error
\* under the statuses 200 and 201), no kid is persisted, and while no kid is
\* persisted no request that needs one is sent.
C15_NoLocationNoKid ==
    [][/\ NewAccountAnswered /\ 200 <= resp'.code /\ resp'.code < 300 /\ resp'.loc = None =>
             /\ err'.type = "RuntimeError"
             /\ resp'.code \in {200, 201} =>
                   err'.msg = "missing account Location header" /\ err'.msg \in ProtocolMsgs
             /\ pc' = "client"
             /\ kid_file' = kid_file
             /\ kid_of(kid_file') = None
       /\ kid_of(kid_file) = None => \A k \in KidKinds : nsent'[k] = nsent[k]]_vars

\* After the failed registration the caller tries a request signed with the kid.
C15_Witness ==
    /\ req.kind = "newAccount" /\ resp.code = 201 /\ resp.loc = None
    /\ call = "post" /\ pc = "client"
    /\ err.msg = "no account kid available"
    /\ nsent["newOrder"] = 0

\* C16: over runs that follow one another on one output directory, the
\* account key file, once it exists, is never written again; a persisted kid
\* is never replaced; and while a kid is persisted no newAccount POST is sent.
C16_AccountReused ==
    [][/\ account_key # None => account_key' = account_key
       /\ kid_of(kid_file) # None =>
             /\ kid_file' = kid_file
             /\ nsent'["newAccount"] # nsent["newAccount"] + 1]_vars

\* The second run uses the key the first run generated and the kid the first
\* run persisted, without a newAccount POST of its own.
C16_Witness ==
    /\ run = 2 /\ account_key = GeneratedKeys[1]
    /\ req.kind = "newOrder" /\ req.kid = "kid1" /\ resp.net = "ok"
    /\ nsent["newAccount"] = 0

\* C17: on a client whose first directory() call succeeded, whatever the
\* number of calls made since, directory() has issued exactly one directory
\* GET and exactly one nonce fetch; every call that returns, returns the
\* stored URLs, which are the three URLs of the CA's directory response.
C17_DirectoryFetchedOnce ==
    dirs.returned =>
        /\ dirs.ret = dir
        /\ dirs.ret = dirs.served
        /\ dirs.ret # NoDir
        /\ ~dirs.raised => nsent["directory"] = 1 /\ dirs.heads = 1

\* A third call has returned, as directory() or inside ensure_account.
C17_Witness ==
    /\ dirs.returned /\ ~dirs.raised
    /\ ncalls >= 3 /\ pc = "client" /\ call = "directory" /\ err = NoErr
    /\ dirs.ret = AcmeDirectory

\* The newOrder POST is answered in this step.
NewOrderAnswered == nsent'["newOrder"] = nsent["newOrder"] + 1 /\ resp'.net = "ok"

\* The requests and effects that follow the new order in an attempt.
AfterOrderKinds == {"authz", "authzPoll", "challenge", "finalize", "orderPoll", "certificate"}

\* C18: a newOrder response whose status is neither 200 nor 201, or that has
\* no Location header, ends the attempt in an error: nothing is published and,
\* no step being taken after the error, no later request is sent.
C18_NewOrderRefusedIsFatal ==
    [][/\ NewOrderAnswered /\ (resp'.code \notin {200, 201} \/ ~Truthy(resp'.loc)) =>
             /\ pc' = "failed"
             /\ err' # NoErr
             /\ order' = NoOrder
             /\ chal_dir' = chal_dir
             /\ \A k \in AfterOrderKinds : nsent'[k] = 0
       /\ pc # "failed"]_vars

\* A 202 answer to newOrder.
C18_Witness ==
    /\ pc = "failed" /\ req.kind = "newOrder" /\ resp.code = 202 /\ Truthy(resp.loc)
    /\ err.msg = "newOrder failed"

\* The authorization is fetched (first fetch) with a 2xx JSON answer in this step.
AuthzFetched == nsent'["authz"] = nsent["authz"] + 1 /\ get_json_error(resp') = NoErr

\* ch is the first entry of type http-01 in the list chs.
FirstHttp01(chs, ch) ==
    \E i \in 1..Len(chs) :
        /\ chs[i] = ch
        /\ ch.type = "http-01"
        /\ \A j \in 1..(i - 1) : chs[j].type # "http-01"

\* C19: when the fetched authorization is not valid and lists no http-01
\* challenge, the attempt ends in the no-http-01 error: no file is written, no
\* challenge POST and no finalize POST is sent (no step follows the error).
\* When it lists one, the first such entry is selected, the only file written
\* is the one named after its token, and the readiness POST goes to its URL.
C19_Http01Only ==
    [][/\ AuthzFetched /\ resp'.body.status # "valid" =>
             IF \A i \in 1..Len(resp'.body.challenges) :
                    resp'.body.challenges[i].type # "http-01"
             THEN /\ pc' = "failed"
                  /\ err'.msg = "no http-01 challenge found"
                  /\ err'.msg \notin ProtocolMsgs
                  /\ chal_dir' = chal_dir
                  /\ chall' = NoChall
                  /\ nsent'["challenge"] = 0 /\ nsent'["finalize"] = 0
             ELSE /\ FirstHttp01(resp'.body.challenges, chall')
                  /\ \A f \in (chal_dir' \ chal_dir) \cup (chal_dir \ chal_dir') :
                        f.name = chall'.token
                  /\ \E f \in chal_dir' : f.name = chall'.token
       /\ nsent'["challenge"] # nsent["challenge"] => req'.url = chall.url
       /\ pc # "failed"]_vars

\* An authorization that offers dns-01 only.
C19_Witness ==
    /\ pc = "failed" /\ err.msg = "no http-01 challenge found"
    /\ req.kind = "authz" /\ resp.body.challenges = <<Dns1>>

\* C20: a run ends in success only after a certificate response with status
\* 200; fullchain.pem then holds the body of that response and privkey.pem the
\* domain key the CSR was built from; a certificate response with another
\* status ends the run in an error.
C20_SuccessMeansDownloaded ==
    /\ pc = "done" =>
          /\ err = NoErr
          /\ req.kind = "certificate" /\ resp.net = "ok" /\ resp.code = 200
          /\ fullchain = resp.body.pem
          /\ Truthy(csr_key) /\ privkey = csr_key
    /\ req.kind = "certificate" /\ resp.net = "ok" /\ resp.code # 200 =>
          pc = "failed" /\ err # NoErr

\* Success over the artifacts of an earlier run: the chain is replaced.
C20_Witness ==
    pc = "done" /\ fullchain = "pem1" /\ privkey = "dk_old" /\ csr_key = "dk_old"


\* ------------------------------------------------- claims (third part)

MutatingKinds == {"newAccount", "newOrder", "challenge", "finalize"}
PollKinds == {"authzPoll", "orderPoll"}

\* C21: within one run of main() every request other than the two polls -
\* the four mutating POSTs among them - is sent at most once, and each poll
\* is sent at most as many times as the polling timeout has clock ticks.
C21_MutatingSentOnce ==
    /\ \A k \in Kinds \ PollKinds : nsent[k] <= 1
    /\ \A k \in PollKinds : nsent[k] <= poll_timeout

C21_Witness ==
    /\ \A k \in MutatingKinds : nsent[k] = 1
    /\ nsent["authzPoll"] = 2
    /\ nsent["orderPoll"] = 2

\* A request is sent in this step and urlopen gets no response to it.
TransportFailure == nsent' # nsent /\ resp'.net = "transport"

\* C22: a request of a run of main() that fails in transport, inside a
\* polling loop or not, ends the run with urlopen's error, and a run that
\* has ended in an error sends no further request.
C22_TransportFailureEndsAttempt ==
    [][/\ TransportFailure => pc' = "failed" /\ err'.type = "URLError"
       /\ pc = "failed" => nsent' = nsent]_vars

C22_Witness ==
    /\ pc = "failed" /\ err.type = "URLError"
    /\ req.kind = "orderPoll" /\ nsent["orderPoll"] = 2
    /\ resp.net = "transport"

\* The messages of the errors main() and the client raise on what a CA answered.
CaFailureMsgs ==
    {"newAccount failed", "newOrder failed", "authorization invalid", "order invalid",
     "cert download failed"}

\* The run ended on a response of the CA that carries a detail.
CaRefused ==
    /\ pc = "failed"
    /\ req.kind \in {"newAccount", "newOrder", "authzPoll", "orderPoll", "certificate"}
    /\ resp.net = "ok" /\ Truthy(resp.body.detail)
    /\ (err.type = "HTTPError" \/ err.msg \in CaFailureMsgs)

\* C23: when a run ends on a CA response that carries a problem detail, the
\* error it ends with carries that detail.
C23_ErrorCarriesDetail == CaRefused => err.detail = resp.body.detail

\* C24: the key the CSR of a run is built from is the key generated in
\* that run, whatever key file the output directory held before.
C24_DomainKeyFresh == Truthy(csr_key) => csr_key = "dk_new"

\* C25: for every domain the key that signs the CSR, and the key written to
\* privkey.pem, is not the account key.
C25_KeysSeparate ==
    /\ Truthy(csr_key) => csr_key # account_key
    /\ pc = "done" => privkey # account_key

\* The newNonce HEAD is answered in this step and its response is what
\* the client last saw.
NonceFetchAnswered ==
    /\ nsent'["newNonce"] = nsent["newNonce"] + 1
    /\ req'.kind = "newNonce" /\ resp'.net = "ok"

\* C26: a newNonce response with a status outside 2xx or without a
\* replay-nonce value makes the fetch raise (on 200 and 204 with the message
\* "missing replay-nonce") and leaves no nonce cached; a signed request that
\* had to fetch its nonce is sent only with the value the fetch returned.
C26_FailedFetchCachesNothing ==
    [][/\ NonceFetchAnswered
            /\ (~(200 <= resp'.code /\ resp'.code < 300) \/ ~Truthy(resp'.rn))
          => /\ err'.type \in {"HTTPError", "RuntimeError"}
             /\ err'.msg \in {"HTTP Error <code>", "newNonce failed", "missing replay-nonce"}
             /\ nonce = None /\ nonce' = None
       /\ NonceFetchAnswered /\ resp'.code \in {200, 204} /\ ~Truthy(resp'.rn)
          => err'.msg = "missing replay-nonce"
       /\ nonce = None /\ SignedSent
          => nsent'["newNonce"] = nsent["newNonce"] + 1 /\ Truthy(req'.nonce)]_vars

C26_Witness ==
    /\ call = "post" /\ req.kind = "newNonce"
    /\ resp.code = 200 /\ resp.rn = None
    /\ err.msg = "missing replay-nonce" /\ nonce = None

\* ----------------------------------------- reading the encoders' output

\* What the recipient of a b64url string does: restore the padding and
\* decode (base64.urlsafe_b64decode), read bytes as a str, json.loads.
restore_padding(v) == v \o [i \in 1..((4 - (Len(v) % 4)) % 4) |-> "="]

b64_index_table ==
    [c \in {B64[i] : i \in 1..Len(B64)} |-> (CHOOSE i \in 1..Len(B64) : B64[i] = c) - 1]

b64_index(c) == IF c = "=" THEN 0 ELSE b64_index_table[c]

b64_ungroup(g) ==
    LET v == [i \in 1..4 |-> b64_index(g[i])]
    IN  <<v[1] * 4 + (v[2] \div 16), (v[2] % 16) * 16 + (v[3] \div 4), (v[3] % 4) * 64 + v[4]>>

urlsafe_b64decode(v) ==
    LET pads == IF v = <<>> \/ v[Len(v)] # "=" THEN 0
                ELSE IF v[Len(v) - 1] # "=" THEN 1 ELSE 2
    IN  [k \in 1..(3 * (Len(v) \div 4) - pads) |->
            b64_ungroup(SubSeq(v, 4 * ((k - 1) \div 3) + 1, 4 * ((k - 1) \div 3) + 4))
                [((k - 1) % 3) + 1]]

decode(data) == [i \in 1..Len(data) |-> chr(data[i])]

RECURSIVE skip_space(_, _)
skip_space(text, i) ==
    IF i <= Len(text) /\ text[i] = " " THEN skip_space(text, i + 1) ELSE i

\* text[i] follows the opening quote of a string; the characters up to the
\* next quote or backslash are taken at once.
RECURSIVE parse_string(_, _, _)
parse_string(text, i, acc) ==
    LET j == CHOOSE j \in i..Len(text) :
                 /\ text[j] \in {"\"", "\\"}
                 /\ \A m \in i..(j - 1) : text[m] \notin {"\"", "\\"}
        plain == acc \o SubSeq(text, i, j - 1)
    IN  IF text[j] = "\"" THEN [v |-> plain, next |-> j + 1]
        ELSE parse_string(text, j + 2, Append(plain, text[j + 1]))

RECURSIVE parse_value(_, _), parse_members(_, _, _)
parse_value(text, i) ==
    IF text[i] = "\""
    THEN LET r == parse_string(text, i + 1, <<>>) IN [v |-> Str(r.v), next |-> r.next]
    ELSE IF text[skip_space(text, i + 1)] = "}"
    THEN [v |-> Dict(<<>>), next |-> skip_space(text, i + 1) + 1]
    ELSE parse_members(text, skip_space(text, i + 1), <<>>)

\* text[i] is the opening quote of the key of the next member.
parse_members(text, i, acc) ==
    LET k == parse_string(text, i + 1, <<>>)
        colon == skip_space(text, k.next)
        val == parse_value(text, skip_space(text, colon + 1))
        items == Append(acc, <<k.v, val.v>>)
        after == skip_space(text, val.next)
    IN  IF text[after] = ","
        THEN parse_members(text, skip_space(text, after + 1), items)
        ELSE [v |-> Dict(items), next |-> after + 1]

json_loads(text) == parse_value(text, 1).v

\* Python's == on these values: two dicts are equal when they have the same
\* keys with equal values, in whatever order.
RECURSIVE py_equal(_, _)
py_equal(a, b) ==
    /\ a.t = b.t /\ a.s = b.s /\ Len(a.o) = Len(b.o)
    /\ \A i \in 1..Len(a.o) : \E j \in 1..Len(b.o) :
          a.o[i][1] = b.o[j][1] /\ py_equal(a.o[i][2], b.o[j][2])

\* obj[key], a str.
member(obj, key) == obj.o[CHOOSE i \in 1..Len(obj.o) : obj.o[i][1] = key][2].s

\* json_b64url read back.
json_b64url_decode(v) == json_loads(decode(urlsafe_b64decode(restore_padding(v))))

\* The envelope read from a request body: its protected and payload members,
\* and the key and the bytes its signature stands for.
read_envelope(data) ==
    LET obj == json_loads(decode(data))
        sig == urlsafe_b64decode(restore_padding(
                   member(obj, <<"s", "i", "g", "n", "a", "t", "u", "r", "e">>)))
    IN  [protected |-> member(obj, <<"p", "r", "o", "t", "e", "c", "t", "e", "d">>),
         payload |-> member(obj, <<"p", "a", "y", "l", "o", "a", "d">>),
         signer |-> Keys[sig[1]],
         signed |-> SubSeq(sig, 3, Len(sig))]

\* post() has built its request.
Posted == codec.fn = "post" /\ codec.step = 1

IsB64url(v) == \A i \in 1..Len(v) : v[i] \in DOMAIN b64_index_table

\* C27: the envelope of a request with the empty str as payload has the
\* empty string as its payload member and is signed over protected + ".";
\* any other payload, the empty dict included, is a non-empty base64url
\* string that decodes to the payload, and is what follows the dot in the
\* signing input.
C27_EmptyPayloadStaysEmpty ==
    Posted =>
        LET env == read_envelope(codec.request.data)
        IN  /\ codec.payload = Str(<<>>)
                  => env.payload = <<>> /\ env.signed = encode(env.protected \o <<".">>)
            /\ codec.payload # Str(<<>>)
                  => /\ env.payload # <<>> /\ IsB64url(env.payload)
                     /\ py_equal(json_b64url_decode(env.payload), codec.payload)
                     /\ env.signed = encode(env.protected \o <<".">> \o env.payload)

C27_Witness ==
    /\ Posted /\ codec.payload = Dict(<<>>)
    /\ read_envelope(codec.request.data).payload = <<"e", "3", "0">>

\* C28: the signature of a posted envelope is made with the account key over
\* the bytes of protected + "." + payload as the envelope carries them, and
\* the url member of its protected header is the URL the request goes to,
\* the one post() was called with.
C28_SignatureCoversEnvelope ==
    Posted =>
        LET env == read_envelope(codec.request.data)
        IN  /\ env.signer = account_key
            /\ env.signed = encode(env.protected \o <<".">> \o env.payload)
            /\ member(json_b64url_decode(env.protected), <<"u", "r", "l">>)
                   = codec.request.url
            /\ codec.request.url = codec.url

C28_Witness ==
    /\ Posted /\ codec.use_kid /\ account_key = "ak1"
    /\ codec.request.url = <<"u", "2">>
    /\ codec.payload = Dict(<<<<<<"b">>, Str(<<"\"">>)>>, <<<<"a">>, Str(<<"\"">>)>>>>)
    /\ read_envelope(codec.request.data).signer = "ak1"

\* C29: JWKs with the same members, inserted in whatever order, have the
\* same thumbprint, and so has a JWK whose thumbprint is computed again.
C29_ThumbprintOfValuesOnly ==
    codec.fn = "jwk_thumbprint" =>
        \A i, j \in 1..Len(codec.thumbs) :
            py_equal(codec.jwks[i], codec.jwks[j]) => codec.thumbs[i] = codec.thumbs[j]

C29_Witness ==
    /\ codec.fn = "jwk_thumbprint" /\ Len(codec.thumbs) = 3
    /\ codec.jwks[1] = rsa_jwk_from_key
    /\ codec.jwks[2] # codec.jwks[1] /\ py_equal(codec.jwks[2], codec.jwks[1])
    /\ codec.thumbs[1] = codec.thumbs[2] /\ codec.thumbs[1] = codec.thumbs[3]

\* C30: the output of json_b64url has no padding character, and with the
\* padding restored it decodes to JSON that parses to a value equal to the
\* payload key for key.
C30_JsonB64urlRoundTrips ==
    codec.fn = "json_b64url" /\ codec.step = 1 =>
        /\ \A i \in 1..Len(codec.b64) : codec.b64[i] # "="
        /\ py_equal(json_b64url_decode(codec.b64), codec.payload)

C30_Witness ==
    /\ codec.fn = "json_b64url" /\ codec.step = 1
    /\ codec.payload = Dict(<<<<<<"b">>, Str(<<"\\">>)>>, <<<<"a", "b">>, Str(<<"\\">>)>>>>)
    /\ Len(codec.b64) % 4 # 0

\* ------------------------- two runs of main() on one output directory

\* Two processes run main() with the same --out-dir, each up to the return
\* of ensure_account.  They share the files account.key.pem and account.kid
\* and nothing else; each has its own client.  A step is one access to a
\* shared file or one network call.
Procs == {1, 2}

\* A process before line 303: key: the account key its client loaded; kid:
\* what _kid() returned at line 213; loc: the Location of its newAccount
\* response; sent: its newAccount POSTs.
NoProc == [pc |-> "start", key |-> None, kid |-> None, loc |-> None, sent |-> 0]

\* The variables the two processes leave alone.
conc_rest ==
    <<pc, dir, nonce, poll_timeout, elapsed, flow_vars, file_vars, err, req, resp,
      spent, nsent, unanswered, poll_vars, run, call, ncalls, dirs, csr_key, domain,
      codec, ca>>

\* The output directory is new, or holds the account key of an earlier run,
\* or that and its kid; the caller runs the two processes side by side, or
\* the second after the first has ended (serial).
ConcInit ==
    /\ pc = "conc"
    /\ dir = NoDir
    /\ nonce = None
    /\ poll_timeout = 0
    /\ elapsed = 0
    /\ order = NoOrder
    /\ authz = None
    /\ chall = NoChall
    /\ chal_dir = {}
    /\ domain_key = None
    /\ fullchain = None
    /\ privkey = None
    /\ cert_url = None
    /\ err = NoErr
    /\ req = NoReq
    /\ resp = NoResp
    /\ spent = {}
    /\ nsent = [k \in Kinds |-> 0]
    /\ unanswered = FALSE
    /\ authz_polled = None
    /\ order_polled = None
    /\ run = 1
    /\ call = "main"
    /\ ncalls = 0
    /\ dirs = NoDirs
    /\ csr_key = None
    /\ domain = "example.org"
    /\ codec = NoCodec
    /\ ca = "any"
    /\ \E files \in {<<None, NoFile>>, <<"ak0", NoFile>>, <<"ak0", File(<<"\n">>)>>,
                      <<"ak0", save_kid("kid0")>>} :
          account_key = files[1] /\ kid_file = files[2]
    /\ conc \in {[serial |-> b, procs |-> <<NoProc, NoProc>>, writes |-> <<>>] :
                    b \in BOOLEAN}

\* Process p is at position at and may take a step: under a serializing
\* caller the second process starts when the first has ended.
at(p, position) ==
    /\ pc = "conc"
    /\ conc.procs[p].pc = position
    /\ conc.serial /\ p = 2 => conc.procs[1].pc \in {"done", "failed"}

\* gen_rsa_key, line 70: if path.exists(): return.
KeyExists(p) ==
    /\ at(p, "start")
    /\ conc' = [conc EXCEPT !.procs[p].pc =
                    IF account_key # None THEN "client" ELSE "genkey"]
    /\ UNCHANGED <<account_key, kid_file, conc_rest>>

\* gen_rsa_key, lines 71-73: openssl writes a new key to the path, whatever
\* the path holds by now.
KeyWrite(p) ==
    /\ at(p, "genkey")
    /\ account_key' = GeneratedKeys[p]
    /\ conc' = [conc EXCEPT !.procs[p].pc = "client"]
    /\ UNCHANGED <<kid_file, conc_rest>>

\* main(), lines 305-306: the client reads the account key (line 126);
\* directory() returns or raises.
NewClient(p) ==
    /\ at(p, "client")
    /\ \E ok \in BOOLEAN :
          conc' = [conc EXCEPT !.procs[p].key = account_key,
                               !.procs[p].pc = IF ok THEN "ensure_account" ELSE "failed"]
    /\ UNCHANGED <<account_key, kid_file, conc_rest>>

\* AcmeClient.ensure_account, lines 213-214: if self._kid(): return.
CheckKid(p) ==
    /\ at(p, "ensure_account")
    /\ conc' = [conc EXCEPT !.procs[p].kid = kid_of(kid_file),
                            !.procs[p].pc =
                                IF kid_of(kid_file) # None THEN "done" ELSE "post"]
    /\ UNCHANGED <<account_key, kid_file, conc_rest>>

\* The responses to the newAccount POSTs of the two processes: the CA names
\* the account in the Location header.
ConcAccountResponses ==
    AccountResponses \cup {[r EXCEPT !.loc = "kid2"] : r \in {q \in AccountResponses : q.loc = "kid1"}}

\* AcmeClient.ensure_account, lines 216-220: the error it raises, the client
\* having a nonce cached.
new_account_error(r) ==
    IF get_json_error(r) # NoErr THEN get_json_error(r)
    ELSE IF r.code \notin {200, 201} THEN Err("RuntimeError", "newAccount failed", None)
    ELSE IF ~Truthy(r.loc) THEN Err("RuntimeError", "missing account Location header", None)
    ELSE NoErr

\* AcmeClient.ensure_account, lines 215-220: the newAccount POST.
PostNewAccount(p) ==
    /\ at(p, "post")
    /\ \E r \in ConcAccountResponses :
          conc' = [conc EXCEPT !.procs[p].sent = @ + 1,
                               !.procs[p].loc =
                                   IF new_account_error(r) = NoErr THEN r.loc ELSE None,
                               !.procs[p].pc =
                                   IF new_account_error(r) = NoErr THEN "save" ELSE "failed"]
    /\ UNCHANGED <<account_key, kid_file, conc_rest>>

\* AcmeClient.ensure_account, line 221: self._save_kid(kid).
SaveKid(p) ==
    /\ at(p, "save")
    /\ kid_file' = save_kid(conc.procs[p].loc)
    /\ conc' = [conc EXCEPT !.procs[p].pc = "done",
                            !.writes = Append(@, conc.procs[p].loc)]
    /\ UNCHANGED <<account_key, conc_rest>>

ConcNext ==
    \E p \in Procs :
        \/ KeyExists(p)
        \/ KeyWrite(p)
        \/ NewClient(p)
        \/ CheckKid(p)
        \/ PostNewAccount(p)
        \/ SaveKid(p)

ConcSpec == ConcInit /\ [][ConcNext]_vars

\* ------------------------------------------------ claims (fourth part)

\* C31: publishing a token's key authorization a second time leaves the
\* challenge directory as the first publication left it, whatever the
\* directory held before.
C31_PublishIdempotent ==
    codec.fn = "publish" =>
        \A i \in 3..Len(codec.chal_dirs) : codec.chal_dirs[i] = codec.chal_dirs[2]

C31_Witness ==
    /\ codec.fn = "publish" /\ Len(codec.chal_dirs) = 3
    /\ codec.ch = Http1 /\ StaleFile \in codec.chal_dirs[1]
    /\ codec.chal_dirs[2] # codec.chal_dirs[1]
    /\ codec.chal_dirs[3] = codec.chal_dirs[2]

\* C32: a run that follows one in which an order was created finds the kid
\* that run left on file; with a kid on file a run sends no newAccount POST
\* and leaves the file alone; and a run whose authorization fetch returns
\* valid goes on to the finalize step without publishing, without a readiness
\* POST and without polling.
C32_ResumesFromCaState ==
    [][/\ run' = run + 1 /\ Truthy(order.url) =>
             kid_file'.exists /\ Strip(kid_file'.text) # Empty
       /\ kid_file.exists /\ Strip(kid_file.text) # Empty =>
             /\ kid_file' = kid_file
             /\ nsent'["newAccount"] = (IF run' = run THEN nsent["newAccount"] ELSE 0)
       /\ authz' = "valid" =>
             /\ chal_dir' = chal_dir
             /\ chall' = NoChall
             /\ nsent'["challenge"] = 0 /\ nsent'["authzPoll"] = 0
             /\ authz # "valid" => pc' = "finalize"]_vars

\* The second run, after a first one that registered the account and
\* published a token: no newAccount POST, and the authorization, now valid,
\* takes it to the finalize step with a new order.
C32_Witness ==
    /\ run = 2 /\ kid_of(kid_file) = "kid1" /\ chal_dir # {}
    /\ nsent["newAccount"] = 0 /\ nsent["newOrder"] = 1
    /\ authz = "valid" /\ pc = "finalize" /\ nsent["challenge"] = 0

\* The key authorization of the selected challenge is in the challenge
\* directory.
Published ==
    [name |-> chall.token, text |-> http01_key_authorization(chall.token)] \in chal_dir

\* C33: the finalize POST has been sent only if an authorization response of
\* this attempt, the first fetch or a poll, had status valid; a step has been
\* taken only if the steps before it were, in the order newOrder,
\* authorization fetch, publication, readiness POST, authorization polls,
\* finalize, order polls, certificate download; and only the publication, the
\* readiness POST and the authorization polls are left out, exactly when the
\* first fetch returned valid.
C33_StepsInOrder ==
    /\ nsent["finalize"] >= 1 => authz = "valid" \/ authz_polled = "valid"
    /\ nsent["authz"] >= 1 => nsent["newOrder"] = 1 /\ Truthy(order.authz_url)
    /\ chall # NoChall => nsent["authz"] = 1 /\ authz # "valid" /\ Published
    /\ nsent["challenge"] >= 1 => chall # NoChall
    /\ nsent["authzPoll"] >= 1 => nsent["challenge"] = 1
    /\ nsent["finalize"] >= 1 =>
          /\ nsent["authz"] = 1
          /\ authz # "valid" => nsent["challenge"] = 1 /\ nsent["authzPoll"] >= 1
    /\ nsent["orderPoll"] >= 1 => nsent["finalize"] = 1
    /\ nsent["certificate"] >= 1 => nsent["orderPoll"] >= 1 /\ order_polled = "valid"
    /\ pc = "done" => nsent["certificate"] = 1

\* An attempt that ran every step, polling the authorization and the order
\* more than once.
C33_Witness ==
    /\ pc = "done" /\ authz = "pending" /\ authz_polled = "valid" /\ Published
    /\ nsent["challenge"] = 1 /\ nsent["authzPoll"] = 2
    /\ nsent["finalize"] = 1 /\ nsent["orderPoll"] = 2 /\ nsent["certificate"] = 1

\* C37: fullchain.pem and privkey.pem are written only in the step in which
\* the certificate download returns a chain, fullchain.pem receiving that
\* chain; every other step, each step that ends the attempt in an error
\* among them, leaves both files as they were.
C37_ArtifactsOnlyAfterDownload ==
    [][\/ fullchain' = fullchain /\ privkey' = privkey
       \/ /\ pc = "download" /\ pc' = "done"
          /\ nsent'["certificate"] = nsent["certificate"] + 1
          /\ resp'.net = "ok" /\ resp'.code = 200
          /\ fullchain' = resp'.body.pem]_vars

\* The download itself fails on an output directory that holds the artifacts
\* of an earlier issuance: they are still there.
C37_Witness ==
    /\ pc = "failed" /\ req.kind = "certificate" /\ err.msg = "cert download failed"
    /\ fullchain = "pem_old" /\ privkey = "dk_old" /\ domain_key = "dk_old"

\* An authorization fetch, an authorization poll or a certificate download
\* is sent in this step.
UnsignedSent == \E k \in {"authz", "authzPoll", "certificate"} : nsent'[k] # nsent[k]

\* C38: an authorization fetch, an authorization poll and a certificate
\* download leave the cached nonce as it was, whatever headers their response
\* carries; and a signed request sent while a nonce is cached carries that
\* nonce, without a fetch.
C38_UnsignedKeepNonce ==
    [][/\ UnsignedSent => nonce' = nonce
       /\ SignedSent /\ nonce # None =>
             req'.nonce = nonce /\ nsent'["newNonce"] = nsent["newNonce"]]_vars

\* The finalize POST carries the nonce the readiness POST's response
\* supplied, the authorization poll in between having been answered with
\* another replay-nonce header.
C38_Witness ==
    /\ req.kind = "finalize" /\ req.nonce = "n2"
    /\ nsent["authzPoll"] = 1 /\ authz_polled = "valid"
    /\ nsent["newNonce"] = 1

\* C36: against a CA that puts a nonce it never issued before on every
\* success response to a signed request, a signed request carries the cached
\* nonce, which is the one the nonce fetch of directory() returned for the
\* first signed request and the one the last signed response supplied for
\* every later one; no nonce is used twice; the nonce fetch of directory()
\* is the only one; and the nonce of a signed success response is cached.
C36_FreshNonceChain ==
    [][/\ SignedSent =>
             /\ req'.nonce = nonce /\ req'.nonce \notin spent
             /\ IF signed_sent = 0 THEN req'.nonce \in Nonces
                ELSE req'.nonce = FreshNonces[signed_sent]
             /\ nsent["newNonce"] = 1 /\ nsent'["newNonce"] = 1
       /\ SignedAnswered /\ resp'.code \in 200..299 =>
             resp'.rn = FreshNonces[signed_sent + 1] /\ nonce' = resp'.rn
       /\ nonce' # nonce => SignedSent \/ nsent'["newNonce"] # nsent["newNonce"]]_vars

\* An attempt that registered the account and polled the order twice: six
\* signed requests, six different nonces, one nonce fetch.
C36_Witness ==
    /\ ca = "fresh" /\ pc = "done" /\ signed_sent = 6 /\ nsent["newNonce"] = 1
    /\ spent = {"n1", "f1", "f2", "f3", "f4", "f5"} /\ nonce = "f6"

\* main() is inside one of its two polling loops.
InLoop == pc \in {"poll_authz", "poll_order"}

\* A poll of the loop main() is in is sent in this step.
PollSent ==
    \/ pc = "poll_authz" /\ nsent'["authzPoll"] # nsent["authzPoll"]
    \/ pc = "poll_order" /\ nsent'["orderPoll"] # nsent["orderPoll"]

\* The poll sent in this step returned a parsed body.
PollReturned == PollSent /\ get_json_error(resp') = NoErr

\* The status the poll sent in this step returned is final for its loop.
PollFinal ==
    \/ pc = "poll_authz" /\ resp'.body.status \in {"valid", "invalid"}
    \/ /\ pc = "poll_order" /\ resp'.code \in {200, 201}
       /\ \/ resp'.body.status = "valid" /\ Truthy(resp'.body.certificate)
          \/ resp'.body.status = "invalid"

\* C35: every call returning (with a response or an exception) and every
\* iteration that goes round advancing the clock, every attempt ends, done
\* or failed, whatever the CA answers.  A polling loop sends a poll only
\* while the elapsed time is below the timeout; it goes round only with the
\* clock advanced; it is left when a poll returns a final status (valid or
\* invalid; for the order, in a 200/201 response, valid with a certificate
\* URL), and when the time is up, then without a request; and it is left in
\* no other way but by the exception of a poll.
C35_AttemptTerminates ==
    /\ <>(pc \in {"done", "failed"})
    /\ [][/\ PollSent => elapsed < poll_timeout
          /\ InLoop /\ pc' = pc =>
                elapsed' > elapsed /\ PollReturned /\ ~PollFinal
          /\ InLoop /\ pc' # pc =>
                \/ PollReturned /\ PollFinal
                \/ PollSent /\ ~PollReturned /\ pc' = "failed"
                \/ ~PollSent /\ elapsed >= poll_timeout /\ pc' = "failed"
                   /\ nsent' = nsent]_vars

\* The order polling loop has gone round twice and is left because the time
\* is up.
C35_Witness ==
    /\ pc = "failed" /\ order_polled = "timeout" /\ authz_polled = "valid"
    /\ nsent["authzPoll"] = 2 /\ nsent["orderPoll"] = 2 /\ elapsed = poll_timeout

\* C34: a process sends at most one newAccount POST, and only after it saw
\* no kid on file; the kid file holds the kid written last; and when the
\* caller runs the second process after the first has ended, the first
\* having returned from ensure_account, the second sends no newAccount POST.
\* (Side by side, both may see no kid and both register: the witness.)
C34_SerializedRegistersOnce ==
    /\ \A p \in Procs :
          /\ conc.procs[p].sent <= 1
          /\ conc.procs[p].sent = 1 => conc.procs[p].kid = None
    /\ conc.writes # <<>> => kid_file = save_kid(conc.writes[Len(conc.writes)])
    /\ conc.serial /\ conc.procs[1].pc = "done" => conc.procs[2].sent = 0

\* Side by side on a directory without a kid, both processes saw no kid and
\* both sent a newAccount POST; the kid file holds the kid the first process
\* was given, which it wrote after the second had written its own.
C34_Witness ==
    /\ ~conc.serial
    /\ \A p \in Procs :
          conc.procs[p].pc = "done" /\ conc.procs[p].kid = None /\ conc.procs[p].sent = 1
    /\ conc.procs[1].loc = "kid1" /\ conc.procs[2].loc = "kid2"
    /\ conc.writes = <<"kid2", "kid1">> /\ kid_of(kid_file) = "kid1"
====
